---- MODULE Spec2Model ----
(***************************************************************************)
(* Verification model of the autogram pipeline (StGerman/autogram).        *)
(*                                                                         *)
(* Strings are sequences of one-character strings, so that sanitising a    *)
(* URL, converting a message id to its decimal text and trimming a reply   *)
(* are computed character by character as the Python code computes them.   *)
(* A Python dict is a sequence of [k, v] records in insertion order.       *)
(* The variable prog names the pass that is running; Init picks it.        *)
(***************************************************************************)
EXTENDS Integers, Sequences, FiniteSets, TLC

VARIABLES
    prog,       \* the pass being run
    pc,         \* position inside the pass
    connected,  \* TelegramClient.is_connected()
    channel,    \* messages held by the messaging service, in the order it returns them
    mwu,        \* messages_with_urls handed to process_messages
    mapping,    \* the dict built by process_messages
    i,          \* index of the message of the outer loop
    j,          \* index of the url of the inner loop
    local,      \* html / content / summary of the process_url call in progress
    files,      \* articles/<lang>/ : filename -> contents
    run,        \* number of the save pass in progress
    stats,      \* fetches, summarizer calls and file writes of the current pass
    prev,       \* how the previous save pass ended: its mapping and the files it left
    doc,        \* the mapping document on disk (NoDoc when there is none)
    err,        \* the exception that left the pass ("none" while there is none)
    rec,        \* MessageUpdater.update_messages: mode, outcomes, requests made
    sm,         \* Summarizer.summarize: attempt, service calls, waits, result
    post,       \* update_channel.main: items, position, sends, waits
    ep,         \* the entry point that is running and what it holds
    mm,         \* MappingManager exercised alone: last mapping saved, last load
    fx          \* a function or a batch of fetches exercised alone: inputs, calls, results

notSave == <<rec, sm, post, ep, mm, fx>>

vars == <<prog, pc, connected, channel, mwu, mapping, i, j, local, files, run, stats, prev,
          doc, err, rec, sm, post, ep, mm, fx>>

(***************************************************************************)
(* Text.                                                                   *)
(***************************************************************************)
NoneVal == <<"<None>">>

Falsy(x) == x = NoneVal \/ x = <<>>

Digits == <<"0", "1", "2", "3", "4", "5", "6", "7", "8", "9">>

Letters == {"a", "b", "c", "d", "e", "h", "l", "m", "o", "p", "s", "t", "x"}

\* \w of Python's re on str: letters, digits and the underscore
IsWordChar(c) == c \in Letters \/ c \in {Digits[n] : n \in 1..10} \/ c = "_"

RECURSIVE IntToStr(_)
IntToStr(n) ==
    IF n < 10 THEN <<Digits[n + 1]>>
    ELSE IntToStr(n \div 10) \o <<Digits[(n % 10) + 1]>>

DigitVal(c) == CHOOSE d \in 0..9 : Digits[d + 1] = c

\* int(message_id_str)
RECURSIVE StrToInt(_)
StrToInt(s) ==
    IF Len(s) = 0 THEN 0
    ELSE 10 * StrToInt(SubSeq(s, 1, Len(s) - 1)) + DigitVal(s[Len(s)])

RECURSIVE DropNonWord(_)
DropNonWord(s) ==
    IF s = <<>> \/ IsWordChar(Head(s)) THEN s ELSE DropNonWord(Tail(s))

\* a substitution that puts one underscore for each character replaced
sanitize_each_char(s) == [n \in 1..Len(s) |-> IF IsWordChar(s[n]) THEN s[n] ELSE "_"]

\* re.sub(r'\W+', '_', url)
RECURSIVE Sanitize(_)
Sanitize(s) ==
    IF s = <<>> THEN <<>>
    ELSE IF IsWordChar(Head(s)) THEN <<Head(s)>> \o Sanitize(Tail(s))
    ELSE <<"_">> \o Sanitize(DropNonWord(Tail(s)))

\* a filename made of the url alone
generate_filename_no_id(message_id, url) == Sanitize(url) \o <<".", "m", "d">>

generate_filename(message_id, url) ==
    IntToStr(message_id) \o <<"_">> \o Sanitize(url) \o <<".", "m", "d">>

HTTP == <<"h", "t", "t", "p", ":", "/", "/">>
HTTPS == <<"h", "t", "t", "p", "s", ":", "/", "/">>

IsPrefixAt(p, s, at) ==
    /\ at + Len(p) - 1 <= Len(s)
    /\ SubSeq(s, at, at + Len(p) - 1) = p

\* https?://\S+ inside one whitespace-free token: the leftmost place where a
\* scheme starts with at least one more character after it; the match runs
\* to the end of the token
UrlStarts(tok) ==
    {at \in 1..Len(tok) :
        \/ IsPrefixAt(HTTP, tok, at) /\ at + Len(HTTP) <= Len(tok)
        \/ IsPrefixAt(HTTPS, tok, at) /\ at + Len(HTTPS) <= Len(tok)}

Min(S) == CHOOSE x \in S : \A y \in S : x <= y

\* a search that keeps the first occurrence of each url
RECURSIVE find_urls_dedup(_)
find_urls_dedup(text) ==
    IF text = <<>> THEN <<>>
    ELSE LET rest == find_urls_dedup(SubSeq(text, 1, Len(text) - 1))
             tok == text[Len(text)]
             st == UrlStarts(tok)
             url == SubSeq(tok, Min(st), Len(tok))
         IN  IF st = {} \/ (\E n \in 1..Len(rest) : rest[n] = url) THEN rest
             ELSE Append(rest, url)

\* url_pattern.findall(message.message), the text being a sequence of tokens
RECURSIVE FindUrls(_)
FindUrls(text) ==
    IF text = <<>> THEN <<>>
    ELSE LET tok == Head(text)
             st == UrlStarts(tok)
         IN  (IF st = {} THEN <<>> ELSE <<SubSeq(tok, Min(st), Len(tok))>>)
             \o FindUrls(Tail(text))

(***************************************************************************)
(* Python dict as an insertion-ordered sequence of [k, v].                 *)
(***************************************************************************)
DictHas(d, k) == \E n \in 1..Len(d) : d[n].k = k

DictGet(d, k) == d[CHOOSE n \in 1..Len(d) : d[n].k = k].v

\* d[k] = v with a new key put first
DictSetFront(d, k, v) ==
    IF DictHas(d, k)
    THEN [n \in 1..Len(d) |-> IF d[n].k = k THEN [k |-> k, v |-> v] ELSE d[n]]
    ELSE <<[k |-> k, v |-> v]>> \o d

\* d[k] = v : a present key keeps its position, a new key goes last
DictSet(d, k, v) ==
    IF DictHas(d, k)
    THEN [n \in 1..Len(d) |-> IF d[n].k = k THEN [k |-> k, v |-> v] ELSE d[n]]
    ELSE Append(d, [k |-> k, v |-> v])

DictKeys(d) == [n \in 1..Len(d) |-> d[n].k]

\* the urls of the items of one entry of the mapping
EntryUrls(items) == [n \in 1..Len(items) |-> items[n].url]

(***************************************************************************)
(* Sample data.                                                            *)
(***************************************************************************)
UrlA == HTTPS \o <<"a">>
UrlB == HTTP \o <<"b">>
UrlC == HTTPS \o <<"c", "/", "d">>

Word(w) == <<w>>

\* a text is a sequence of tokens: runs of non-blank characters, and the
\* blanks between them
SP == <<" ">>
NL == <<"\n">>

Msg(id, text) == [id |-> id, message |-> text]

\* one message carrying [A, B, C]
ChannelABC == <<Msg(7, <<Word("x"), SP, UrlA, SP, UrlB, NL, UrlC>>)>>

\* three messages with urls, newest first, and one without any
ChannelThree ==
    <<Msg(12, <<UrlA>>), Msg(3, <<Word("x")>>), Msg(10, <<UrlB, SP, Word("x")>>), Msg(9, <<UrlC>>)>>

\* one message that carries the same url twice
ChannelTwice == <<Msg(5, <<UrlA, SP, UrlA>>)>>

Channels == {ChannelABC, ChannelThree, ChannelTwice}

\* texts the generation service may answer with
Summaries == {<<"s">>, <<"t">>}

\* the mapping document: absent, cut short by a failed write, or a dict
NoDoc == [state |-> "absent", body |-> <<>>]
Truncated == [state |-> "truncated", body |-> <<>>]
Document(body) == [state |-> "ok", body |-> body]

(***************************************************************************)
(* FileManager.                                                            *)
(***************************************************************************)
\* an existence check that never finds the file
check_file_missing(fs, filename) == FALSE

\* an existence check that takes an empty file for a missing one
check_file_nonempty(fs, filename) == filename \in DOMAIN fs /\ fs[filename] # <<>>

check_file_exists(fs, filename) == filename \in DOMAIN fs

\* open(filepath, 'w') then f.write(summary), every exception swallowed:
\* "ok" writes the summary, "open_fail" leaves the directory as it was,
\* "write_fail" leaves the file opened for writing, truncated
WriteOutcomes == {"ok", "open_fail", "write_fail"}

save_summary(fs, filename, summary, outcome) ==
    CASE outcome = "ok" -> (filename :> summary) @@ fs
      [] outcome = "write_fail" -> (filename :> <<>>) @@ fs
      [] OTHER -> fs

(***************************************************************************)
(* TelegramClientHandler.get_messages_with_urls                            *)
(***************************************************************************)
LIMIT == 100

get_messages(chan, limit) ==
    SubSeq(chan, 1, IF Len(chan) < limit THEN Len(chan) ELSE limit)

\* a listing that keeps every message, with or without urls
messages_unfiltered(msgs) ==
    [n \in 1..Len(msgs) |-> [message |-> msgs[n], urls |-> FindUrls(msgs[n].message)]]

RECURSIVE messages_with_urls(_)
messages_with_urls(msgs) ==
    IF msgs = <<>> THEN <<>>
    ELSE LET m == Head(msgs)
             found_urls == FindUrls(m.message)
         IN  (IF m.message # <<>> /\ found_urls # <<>>
              THEN <<[message |-> m, urls |-> found_urls]>>
              ELSE <<>>)
             \o messages_with_urls(Tail(msgs))

\* client.start(): the connection is made, or the call raises
StartOutcomes == {"ok", "fail"}

(***************************************************************************)
(* ArticleFetcher.fetch, ArticleParser.parse, Summarizer.summarize as seen *)
(* by process_url.                                                         *)
(***************************************************************************)
\* session.get(url, timeout=10): a page, a status other than 200, an
\* aiohttp.ClientError, an elapsed timeout (asyncio.TimeoutError, which is no
\* ClientError), or a file named after the url in the working directory
FetchOutcomes == {"page", "non200", "client_error", "timeout", "cwd_file"}

\* what fetch returns; "raise" when the exception leaves fetch
fetch(outcome) ==
    CASE outcome = "page" -> <<"h">>
      [] outcome = "timeout" -> <<"<raise>">>
      [] OTHER -> NoneVal

Raises(x) == x = <<"<raise>">>

\* parse returns the text, an empty text, or None after an exception
ParseResults == {<<"c">>, <<>>, NoneVal}

\* summarize returns the trimmed answer (possibly empty) or None
SummarizeResults == Summaries \cup {<<>>, NoneVal}

(***************************************************************************)
(* The save pass: get_messages_with_urls, then                             *)
(* MessageProcessor.process_messages and process_url.                      *)
(***************************************************************************)
MaxRuns == 2

\* failed: the positions <<i, j>> of the urls whose fetch failed in this pass
ZeroStats == [fetch |-> 0, summ |-> 0, write |-> 0, failed |-> {}]

NoPrev == [returned |-> FALSE, mapping |-> <<>>, files |-> <<>>]

NoLocal == [filename |-> <<>>, html |-> <<>>, content |-> <<>>, summary |-> <<>>]

CurMsg == mwu[i]
CurUrl == mwu[i].urls[j]

SaveInit ==
    /\ prog = "save"
    /\ pc = "list"
    /\ connected = FALSE
    /\ channel \in Channels
    /\ mwu = <<>>
    /\ mapping = <<>>
    /\ i = 1
    /\ j = 1
    /\ local = NoLocal
    /\ files = <<>>
    /\ run = 1
    /\ stats = ZeroStats
    /\ prev = NoPrev
    /\ doc = NoDoc
    /\ err = "none"
    /\ rec = <<>> /\ sm = <<>> /\ post = <<>> /\ ep = <<>> /\ mm = <<>> /\ fx = <<>>

\* telegram_handler.get_messages_with_urls(channel_name)
GetMessagesWithUrls ==
    /\ prog = "save" /\ pc = "list"
    /\ \E so \in StartOutcomes :
        IF ~connected /\ so = "fail"
        THEN /\ pc' = "raised"
             /\ err' = "ConnectionError"
             /\ UNCHANGED <<connected, mwu>>
        ELSE /\ connected' = TRUE
             /\ mwu' = messages_with_urls(get_messages(channel, LIMIT))
             /\ pc' = "pm_msg"
             /\ UNCHANGED err
    /\ mapping' = <<>>
    /\ i' = 1 /\ j' = 1
    /\ UNCHANGED <<notSave, prog, channel, local, files, run, stats, prev, doc>>

\* for message, urls in messages_with_urls: mapping[message_id] = []
NextMessage ==
    /\ prog = "save" /\ pc = "pm_msg"
    /\ IF i > Len(mwu)
       THEN /\ pc' = "returned"
            /\ UNCHANGED <<mapping, j>>
       ELSE /\ mapping' = DictSet(mapping, CurMsg.message.id, <<>>)
            /\ j' = 1
            /\ pc' = "pm_url"
    /\ UNCHANGED <<notSave, err, prog, connected, channel, mwu, i, local, files, run, stats, prev, doc>>

AppendInfo(m, message_id, url, filename) ==
    DictSet(m, message_id, Append(DictGet(m, message_id), [url |-> url, filename |-> filename]))

\* for url in urls: process_url begins; an existing file is recorded at once
NextUrl ==
    /\ prog = "save" /\ pc = "pm_url"
    /\ IF j > Len(CurMsg.urls)
       THEN /\ i' = i + 1
            /\ pc' = "pm_msg"
            /\ UNCHANGED <<mapping, j, local>>
       ELSE LET filename == generate_filename(CurMsg.message.id, CurUrl)
            IN  IF check_file_exists(files, filename)
                THEN /\ mapping' = AppendInfo(mapping, CurMsg.message.id, CurUrl, filename)
                     /\ j' = j + 1
                     /\ UNCHANGED <<i, pc, local>>
                ELSE /\ local' = [NoLocal EXCEPT !.filename = filename]
                     /\ pc' = "fetch"
                     /\ UNCHANGED <<mapping, i, j>>
    /\ UNCHANGED <<notSave, err, prog, connected, channel, mwu, files, run, stats, prev, doc>>

\* process_url returned: back to the loop over the urls
BackToLoop ==
    /\ j' = j + 1
    /\ pc' = "pm_url"
    /\ local' = NoLocal

\* html = await self.fetcher.fetch(url)
Fetch ==
    /\ prog = "save" /\ pc = "fetch"
    /\ \E fo \in FetchOutcomes :
        LET html == fetch(fo)
        IN  IF Raises(html)
            THEN /\ pc' = "raised"
                 /\ err' = "TimeoutError"
                 /\ stats' = [stats EXCEPT !.fetch = @ + 1, !.failed = @ \cup {<<i, j>>}]
                 /\ UNCHANGED <<j, local>>
            ELSE IF Falsy(html)
            THEN /\ BackToLoop
                 /\ stats' = [stats EXCEPT !.fetch = @ + 1, !.failed = @ \cup {<<i, j>>}]
                 /\ UNCHANGED err
            ELSE /\ local' = [local EXCEPT !.html = html]
                 /\ pc' = "parse"
                 /\ stats' = [stats EXCEPT !.fetch = @ + 1]
                 /\ UNCHANGED <<j, err>>
    /\ UNCHANGED <<notSave, prog, connected, channel, mwu, mapping, i, files, run, prev, doc>>

\* content = self.parser.parse(html)
Parse ==
    /\ prog = "save" /\ pc = "parse"
    /\ \E content \in ParseResults :
        IF Falsy(content)
        THEN BackToLoop
        ELSE /\ local' = [local EXCEPT !.content = content]
             /\ pc' = "summarize"
             /\ UNCHANGED j
    /\ UNCHANGED <<notSave, err, prog, connected, channel, mwu, mapping, i, files, run, stats, prev, doc>>

\* summary = self.summarizer.summarize(content)
Summarize ==
    /\ prog = "save" /\ pc = "summarize"
    /\ stats' = [stats EXCEPT !.summ = @ + 1]
    /\ \E summary \in SummarizeResults :
        IF Falsy(summary)
        THEN BackToLoop
        ELSE /\ local' = [local EXCEPT !.summary = summary]
             /\ pc' = "save"
             /\ UNCHANGED j
    /\ UNCHANGED <<notSave, err, prog, connected, channel, mwu, mapping, i, files, run, prev, doc>>

\* self.file_manager.save_summary(filename, summary); return {url, filename}
SaveSummary ==
    /\ prog = "save" /\ pc = "save"
    /\ stats' = [stats EXCEPT !.write = @ + 1]
    /\ \E wo \in WriteOutcomes :
        files' = save_summary(files, local.filename, local.summary, wo)
    /\ mapping' = AppendInfo(mapping, CurMsg.message.id, CurUrl, local.filename)
    /\ BackToLoop
    /\ UNCHANGED <<notSave, err, prog, connected, channel, mwu, i, run, prev, doc>>

\* the process is terminated while the pass is under way; inside
\* save_summary that is before open(filepath, 'w'), or after it with the
\* file created and the summary not yet written out.  What the process
\* held in memory is gone, the files stay.
Terminate ==
    /\ prog = "save"
    /\ pc \in {"pm_msg", "pm_url", "fetch", "parse", "summarize", "save"}
    /\ pc' = "raised"
    /\ err' = "Terminated"
    /\ \/ UNCHANGED files
       \/ /\ pc = "save"
          /\ files' = save_summary(files, local.filename, local.summary, "write_fail")
    /\ connected' = FALSE
    /\ mwu' = <<>> /\ mapping' = <<>> /\ i' = 1 /\ j' = 1
    /\ local' = NoLocal
    /\ stats' = ZeroStats
    /\ UNCHANGED <<notSave, prog, channel, run, prev, doc>>

(***************************************************************************)
(* MappingManager.                                                         *)
(***************************************************************************)
\* json.dump(mapping): the int keys become their decimal text, the order of
\* the keys and of the lists is kept
json_dump(m) == [n \in 1..Len(m) |-> [k |-> IntToStr(m[n].k), v |-> m[n].v]]

\* a save that adds the entries to those of the document in place
save_mapping_merge(old, m, outcome) ==
    CASE outcome = "ok" -> Document(old.body \o json_dump(m))
      [] outcome = "write_fail" -> Truncated
      [] OTHER -> old

\* open(mapping_file, 'w') then json.dump: "ok" replaces the document,
\* "open_fail" raises with the old document in place, "write_fail" raises
\* with the document cut short
save_mapping(old, m, outcome) ==
    CASE outcome = "ok" -> Document(json_dump(m))
      [] outcome = "write_fail" -> Truncated
      [] OTHER -> old

\* a load that opens the file without looking whether it is there
load_mapping_unguarded(d) ==
    CASE d.state \in {"absent", "truncated"} -> [is |-> "raise", dict |-> <<>>]
      [] OTHER -> [is |-> "dict", dict |-> d.body]

\* what load_mapping comes to: None when the file is not there, else
\* json.load, which raises on a document that was cut short
load_mapping(d) ==
    CASE d.state = "absent" -> [is |-> "None", dict |-> <<>>]
      [] d.state = "truncated" -> [is |-> "raise", dict |-> <<>>]
      [] OTHER -> [is |-> "dict", dict |-> d.body]

\* the save pass is started again over the same channel
SaveAgain ==
    /\ prog = "save" /\ pc \in {"returned", "raised"}
    /\ run < MaxRuns
    /\ run' = run + 1
    /\ prev' = [returned |-> pc = "returned", mapping |-> mapping, files |-> files]
    /\ pc' = "list"
    /\ mapping' = <<>>
    /\ mwu' = <<>>
    /\ i' = 1 /\ j' = 1
    /\ local' = NoLocal
    /\ stats' = ZeroStats
    /\ err' = "none"
    /\ UNCHANGED <<notSave, prog, connected, channel, files, doc>>

SaveNext ==
    \/ GetMessagesWithUrls
    \/ NextMessage
    \/ NextUrl
    \/ Fetch
    \/ Parse
    \/ Summarize
    \/ SaveSummary
    \/ Terminate
    \/ SaveAgain

SaveSpec == SaveInit /\ [][SaveNext]_vars

(***************************************************************************)
(* The reconcile pass: load_mapping, then MessageUpdater.update_messages   *)
(* over TelegramClientHandler.get_message and edit_message.                *)
(***************************************************************************)
notRec == <<mwu, j, local, run, stats, prev, sm, post, ep, mm, fx>>

\* a load that never finds the summary
load_summary_none(fs, filename) == NoneVal

\* FileManager.load_summary: the contents, or None after any exception
load_summary(fs, filename) == IF filename \in DOMAIN fs THEN fs[filename] ELSE NoneVal

RECURSIVE Join(_, _)
Join(tokens, sep) ==
    IF tokens = <<>> THEN <<>>
    ELSE IF Len(tokens) = 1 THEN tokens
    ELSE <<Head(tokens), sep>> \o Join(Tail(tokens), sep)

\* the summaries of the recorded files that load and are not empty
RECURSIVE LoadedSummaries(_, _)
LoadedSummaries(infos, fs) ==
    IF infos = <<>> THEN <<>>
    ELSE LET summary == load_summary(fs, Head(infos).filename)
         IN  (IF Falsy(summary) THEN <<>> ELSE <<summary>>)
             \o LoadedSummaries(Tail(infos), fs)

\* update mode: the text, a blank line, the loaded summaries one per line
update_content(text, infos, fs) ==
    LET loaded == LoadedSummaries(infos, fs)
    IN  IF loaded = <<>> THEN text ELSE text \o <<NL, NL>> \o Join(loaded, NL)

\* restore mode: the recorded urls one per line; the text as it is when no
\* url is recorded
restore_content(text, infos) ==
    IF infos = <<>> THEN text ELSE Join(EntryUrls(infos), NL)

Modes == {"update", "restore"}

\* a restore that joins the recorded urls whatever their number
content_func_urls_only(mode, text, infos, fs) ==
    IF mode = "update" THEN update_content(text, infos, fs) ELSE Join(EntryUrls(infos), NL)

content_func(mode, text, infos, fs) ==
    IF mode = "update" THEN update_content(text, infos, fs) ELSE restore_content(text, infos)

HasMsg(chan, id) == \E n \in 1..Len(chan) : chan[n].id = id

TextOf(chan, id) == chan[CHOOSE n \in 1..Len(chan) : chan[n].id = id].message

SetText(chan, id, text) ==
    [n \in 1..Len(chan) |-> IF chan[n].id = id THEN Msg(id, text) ELSE chan[n]]

\* client.get_messages(channel, ids=id) answers, or raises
GetOutcomes == {"reply", "error"}

\* client.edit_message: accepted, refused with MessageNotModifiedError
\* (the text is the one the message has), or refused with another error
EditOutcomes == {"ok", "not_modified", "error"}

EditAllowed(eo, cur, new) ==
    CASE eo = "ok" -> new # cur /\ new # <<>>
      [] eo = "not_modified" -> new = cur
      [] OTHER -> TRUE

\* an edit_message without the "except MessageNotModifiedError" clause of
\* either class
edit_message_not_modified_raises(eo) ==
    CASE eo = "ok" -> "DONE"
      [] eo = "error" -> "FAILED"
      [] OTHER -> "RAISE"

\* an edit_message without the "except Exception" clause
edit_message_uncaught(eo) ==
    CASE eo = "ok" -> "DONE"
      [] eo = "not_modified" -> "NOOP"
      [] OTHER -> "RAISE"

\* TelegramClientHandler.edit_message around client.edit_message: what the
\* call comes to for the entry, the two except clauses swallowing the errors
edit_message_result(eo) ==
    CASE eo = "ok" -> "DONE"
      [] eo = "not_modified" -> "NOOP"
      [] eo = "error" -> "FAILED"
      [] OTHER -> "RAISE"

\* TelegramClientHandler.get_message around client.get_messages: the message
\* was returned, or None (no such message, or an exception that is logged)
get_message_result(go, found) ==
    CASE go = "reply" /\ found -> "FOUND"
      [] go = "reply" -> "NONE"
      [] go = "error" -> "NONE"
      [] OTHER -> "RAISE"

Info(id, url) == [url |-> url, filename |-> generate_filename(id, url)]

\* the channel at the time of the reconcile pass: message 9 is gone
RecChannel == <<Msg(12, <<UrlA>>), Msg(10, <<UrlB, SP, Word("x")>>)>>

\* mappings a save pass over ChannelThree can have left
RecMappings ==
    {<<[k |-> 12, v |-> <<Info(12, UrlA)>>],
       [k |-> 9, v |-> <<Info(9, UrlC)>>],
       [k |-> 10, v |-> <<Info(10, UrlB)>>]>>,
     <<[k |-> 12, v |-> <<Info(12, UrlA)>>],
       [k |-> 10, v |-> <<>>],
       [k |-> 9, v |-> <<Info(9, UrlC)>>]>>}

RecDocs == {NoDoc, Truncated} \cup {Document(json_dump(m)) : m \in RecMappings}

RecFiles ==
    {(generate_filename(12, UrlA) :> <<"s">>) @@ (generate_filename(10, UrlB) :> <<"t">>),
     (generate_filename(12, UrlA) :> <<>>)}

\* reply: what the service answered to the last edit request
NoRec == [mode |-> "restore", id |-> 0, text |-> <<>>, outcomes |-> <<>>,
          gets |-> <<>>, edits |-> <<>>, reply |-> "none"]

RecInit ==
    /\ prog = "reconcile"
    /\ pc = "load"
    /\ connected \in BOOLEAN
    /\ channel = RecChannel
    /\ doc \in RecDocs
    /\ files \in RecFiles
    /\ mapping = <<>>
    /\ i = 1
    /\ err = "none"
    /\ rec \in {[NoRec EXCEPT !.mode = m] : m \in Modes}
    /\ mwu = <<>> /\ j = 1 /\ local = NoLocal /\ run = 1
    /\ stats = ZeroStats /\ prev = NoPrev
    /\ sm = <<>> /\ post = <<>> /\ ep = <<>> /\ mm = <<>> /\ fx = <<>>

\* mapping = load_mapping(); no mapping: the pass returns
LoadMapping ==
    /\ prog = "reconcile" /\ pc = "load"
    /\ LET m == load_mapping(doc)
       IN  IF m.is = "raise"
           THEN pc' = "raised" /\ err' = "JSONDecodeError" /\ UNCHANGED mapping
           ELSE IF m.is = "None"
           THEN pc' = "done" /\ UNCHANGED <<err, mapping>>
           ELSE pc' = "um_get" /\ mapping' = m.dict /\ UNCHANGED err
    /\ i' = 1
    /\ UNCHANGED <<notRec, prog, connected, channel, files, doc, rec>>

Outcome(key, what) == [key |-> key, outcome |-> what]

\* for message_id_str, summaries_info in mapping.items():
\*     message = await self.telegram_handler.get_message(channel, message_id)
GetMessage ==
    /\ prog = "reconcile" /\ pc = "um_get"
    /\ IF i > Len(mapping)
       THEN /\ pc' = "done"
            /\ UNCHANGED <<connected, err, rec, i>>
       ELSE LET message_id == StrToInt(mapping[i].k)
            IN  \E so \in StartOutcomes, go \in GetOutcomes :
                    IF ~connected /\ so = "fail"
                    THEN /\ pc' = "raised"
                         /\ err' = "ConnectionError"
                         /\ UNCHANGED <<connected, rec, i>>
                    ELSE LET got == get_message_result(go, HasMsg(channel, message_id))
                         IN  /\ connected' = TRUE
                             /\ CASE got = "FOUND" ->
                                      /\ rec' = [rec EXCEPT !.gets = Append(@, message_id),
                                                            !.id = message_id,
                                                            !.text = TextOf(channel, message_id)]
                                      /\ pc' = "um_edit"
                                      /\ UNCHANGED <<i, err>>
                                  [] got = "NONE" ->
                                      /\ rec' = [rec EXCEPT !.gets = Append(@, message_id),
                                                            !.outcomes =
                                                                Append(@, Outcome(mapping[i].k, "SKIPPED"))]
                                      /\ i' = i + 1
                                      /\ UNCHANGED <<pc, err>>
                                  [] OTHER ->
                                      /\ rec' = [rec EXCEPT !.gets = Append(@, message_id)]
                                      /\ pc' = "raised"
                                      /\ err' = "Exception"
                                      /\ UNCHANGED i
    /\ UNCHANGED <<notRec, prog, channel, files, doc, mapping>>

\* new_content = content_func(message, summaries_info)
\* await self.edit_message(message_id, new_content)
EditMessage ==
    /\ prog = "reconcile" /\ pc = "um_edit"
    /\ LET new_content == content_func(rec.mode, rec.text, mapping[i].v, files)
           cur == TextOf(channel, rec.id)
       IN  \E so \in StartOutcomes, eo \in EditOutcomes :
               IF ~connected /\ so = "fail"
               THEN /\ pc' = "raised"
                    /\ err' = "ConnectionError"
                    /\ UNCHANGED <<connected, channel, rec, i>>
               ELSE LET res == edit_message_result(eo)
                        request == [id |-> rec.id, text |-> new_content]
                    IN  /\ EditAllowed(eo, cur, new_content)
                        /\ connected' = TRUE
                        /\ channel' = IF eo = "ok" THEN SetText(channel, rec.id, new_content)
                                      ELSE channel
                        /\ IF res = "RAISE"
                           THEN /\ rec' = [rec EXCEPT !.edits = Append(@, request),
                                                       !.reply = eo]
                                /\ pc' = "raised"
                                /\ err' = "Exception"
                                /\ UNCHANGED i
                           ELSE /\ rec' = [rec EXCEPT
                                             !.edits = Append(@, request),
                                             !.reply = eo,
                                             !.outcomes = Append(@, Outcome(mapping[i].k, res))]
                                /\ i' = i + 1
                                /\ pc' = "um_get"
                                /\ UNCHANGED err
    /\ UNCHANGED <<notRec, prog, files, doc, mapping>>

\* the connection drops while the pass is under way
ConnectionLost ==
    /\ prog = "reconcile" /\ pc \in {"um_get", "um_edit"}
    /\ connected
    /\ connected' = FALSE
    /\ UNCHANGED <<notRec, prog, pc, channel, files, doc, mapping, i, err, rec>>

RecNext ==
    \/ LoadMapping
    \/ GetMessage
    \/ EditMessage
    \/ ConnectionLost

RecSpec == RecInit /\ [][RecNext]_vars

(***************************************************************************)
(* The entry points that start the Telegram client: update_channel.main,   *)
(* extract_urls.main and main.main.  ep.started records that client.start  *)
(* has returned; pc is "run", "returned" or "raised".                      *)
(***************************************************************************)
notEntry == <<mwu, mapping, i, j, local, run, stats, prev, doc, rec, sm, mm, fx>>

NoEp == [name |-> "none", step |-> "none", started |-> FALSE, urls |-> <<>>,
         htmls |-> <<>>, k |-> 1, out |-> <<>>]

\* input: summaries.json as loaded; items: the list after the sort
NoPost == [input |-> <<>>, items |-> <<>>, idx |-> 1, log |-> <<>>, sleeps |-> <<>>]

Item(message_id, summary) == [message_id |-> message_id, summary |-> summary]

\* summaries_data.sort(key=lambda x: x['message_id']): a stable sort
RECURSIVE InsertByMessageId(_, _)
InsertByMessageId(sorted, item) ==
    IF sorted = <<>> THEN <<item>>
    ELSE IF item.message_id < Head(sorted).message_id THEN <<item>> \o sorted
    ELSE <<Head(sorted)>> \o InsertByMessageId(Tail(sorted), item)

\* a sort that puts an item before the items of the same message_id
RECURSIVE insert_before_equal(_, _)
insert_before_equal(sorted, item) ==
    IF sorted = <<>> THEN <<item>>
    ELSE IF item.message_id <= Head(sorted).message_id THEN <<item>> \o sorted
    ELSE <<Head(sorted)>> \o insert_before_equal(Tail(sorted), item)

RECURSIVE sort_unstable(_)
sort_unstable(items) ==
    IF items = <<>> THEN <<>>
    ELSE insert_before_equal(sort_unstable(SubSeq(items, 1, Len(items) - 1)),
                             items[Len(items)])

RECURSIVE SortByMessageId(_)
SortByMessageId(items) ==
    IF items = <<>> THEN <<>>
    ELSE InsertByMessageId(SortByMessageId(SubSeq(items, 1, Len(items) - 1)),
                           items[Len(items)])

\* the contents of summaries.json
PostInputs ==
    {<<Item(3, <<"c">>), Item(1, <<"a">>), Item(3, <<"d">>)>>,
     <<Item(2, <<"b">>), Item(1, <<"a">>)>>}

\* the seconds a FloodWaitError can carry
WaitSeconds == {5, 60}

\* FloodWaitErrors the service raises in one run of the model
MaxFloods == 2

Floods(log) == Cardinality({n \in 1..Len(log) : log[n].outcome = "flood"})

\* a loop that gives up the item on a rate-limit signal
after_send_skip(outcome, seconds) ==
    CASE outcome = "flood" -> [sent |-> TRUE, sleep |-> seconds]
      [] OTHER -> [sent |-> TRUE, sleep |-> 0]

\* a loop that gives up the item when the wait signalled is a long one
after_send_skip_long(outcome, seconds) ==
    CASE outcome = "ok" -> [sent |-> TRUE, sleep |-> 0]
      [] outcome = "flood" -> [sent |-> seconds > 5, sleep |-> seconds]
      [] OTHER -> [sent |-> TRUE, sleep |-> 0]

\* one turn of the while loop: [sent, sleep] after client.send_message ended
\* with the outcome; sleep is the argument of asyncio.sleep, 0 for no sleep
after_send(outcome, seconds) ==
    CASE outcome = "ok" -> [sent |-> TRUE, sleep |-> 0]
      [] outcome = "flood" -> [sent |-> FALSE, sleep |-> seconds]
      [] OTHER -> [sent |-> TRUE, sleep |-> 0]

EntryInit ==
    /\ prog = "entry"
    /\ pc = "run"
    /\ connected = FALSE
    /\ err = "none"
    /\ \/ /\ ep = [NoEp EXCEPT !.name = "update_channel", !.step = "enter"]
          /\ channel = <<>>
          /\ files = <<>>
       \/ /\ ep = [NoEp EXCEPT !.name = "extract_urls", !.step = "start"]
          /\ channel \in Channels
          /\ files = <<>>
       \/ /\ ep = [NoEp EXCEPT !.name = "main", !.step = "get_urls"]
          /\ channel \in Channels
          /\ files \in {<<>>, (Sanitize(UrlA) \o <<".", "m", "d">>) :> <<"s">>}
    /\ post = NoPost
    /\ mwu = <<>> /\ mapping = <<>> /\ i = 1 /\ j = 1 /\ local = NoLocal
    /\ run = 1 /\ stats = ZeroStats /\ prev = NoPrev /\ doc = NoDoc
    /\ rec = <<>> /\ sm = <<>> /\ mm = <<>> /\ fx = <<>>

\* an exception leaves the function; inside "async with client" or under
\* "try ... finally: stop()" the client is disconnected on the way out
Leave(how, exc, release) ==
    /\ pc' = how
    /\ err' = exc
    /\ connected' = IF release THEN FALSE ELSE connected
    /\ ep' = [ep EXCEPT !.step = "end"]

(* update_channel.main *)

\* async with client: __aenter__ starts the client
UcEnter ==
    /\ prog = "entry" /\ ep.name = "update_channel" /\ ep.step = "enter"
    /\ \E so \in StartOutcomes :
        IF so = "fail"
        THEN Leave("raised", "ConnectionError", FALSE)
        ELSE /\ connected' = TRUE
             /\ ep' = [ep EXCEPT !.step = "auth", !.started = TRUE]
             /\ UNCHANGED <<pc, err>>
    /\ UNCHANGED <<notEntry, prog, channel, files, post>>

\* if not await client.is_user_authorized(): the sign-in dialogue, any
\* exception of which leaves through __aexit__
AuthOutcomes == {"authorized", "signed_in", "password_signed_in", "error"}

UcAuthorize ==
    /\ prog = "entry" /\ ep.name = "update_channel" /\ ep.step = "auth"
    /\ \E ao \in AuthOutcomes :
        IF ao = "error"
        THEN Leave("raised", "RPCError", TRUE)
        ELSE /\ ep' = [ep EXCEPT !.step = "load"]
             /\ UNCHANGED <<pc, err, connected>>
    /\ UNCHANGED <<notEntry, prog, channel, files, post>>

\* open(INPUT_FILE), json.load, then the sort
UcLoad ==
    /\ prog = "entry" /\ ep.name = "update_channel" /\ ep.step = "load"
    /\ \/ /\ Leave("raised", "FileNotFoundError", TRUE)
          /\ UNCHANGED post
       \/ \E input \in PostInputs :
            /\ post' = [post EXCEPT !.input = input, !.items = SortByMessageId(input),
                                    !.idx = 1]
            /\ ep' = [ep EXCEPT !.step = "loop"]
            /\ UNCHANGED <<pc, err, connected>>
    /\ UNCHANGED <<notEntry, prog, channel, files>>

SendOutcomes == {"ok", "flood", "error"}

\* for item in summaries_data: sent = False; while not sent: one
\* client.send_message and what the except clauses make of it
UcSend ==
    /\ prog = "entry" /\ ep.name = "update_channel" /\ ep.step = "loop"
    /\ post.idx <= Len(post.items)
    /\ \E outcome \in SendOutcomes, seconds \in WaitSeconds :
        /\ outcome = "flood" => Floods(post.log) < MaxFloods
        /\ outcome # "flood" => seconds = 5
        /\ LET r == after_send(outcome, seconds)
           IN  post' = [post EXCEPT
                   !.log = Append(@, [idx |-> post.idx, outcome |-> outcome,
                                      seconds |-> IF outcome = "flood" THEN seconds ELSE 0]),
                   !.sleeps = IF r.sleep > 0 THEN Append(@, r.sleep) ELSE @,
                   !.idx = IF r.sent THEN @ + 1 ELSE @]
    /\ UNCHANGED <<notEntry, prog, pc, err, connected, channel, files, ep>>

\* the loop is over: __aexit__ disconnects and main returns
UcExit ==
    /\ prog = "entry" /\ ep.name = "update_channel" /\ ep.step = "loop"
    /\ post.idx > Len(post.items)
    /\ Leave("returned", "none", TRUE)
    /\ UNCHANGED <<notEntry, prog, channel, files, post>>

(* extract_urls.main *)

EXTRACT_LIMIT == 10

\* client.start()
ExStart ==
    /\ prog = "entry" /\ ep.name = "extract_urls" /\ ep.step = "start"
    /\ \E so \in StartOutcomes :
        IF so = "fail"
        THEN Leave("raised", "ConnectionError", FALSE)
        ELSE /\ connected' = TRUE
             /\ ep' = [ep EXCEPT !.step = "auth", !.started = TRUE]
             /\ UNCHANGED <<pc, err>>
    /\ UNCHANGED <<notEntry, prog, channel, files, post>>

\* if not await client.is_user_authorized(): code request and sign-in; on
\* SessionPasswordNeededError the password sign-in, or "return" when no
\* TWO_STEP_PASSWORD is configured
ExAuthOutcomes ==
    {"authorized", "signed_in", "password_signed_in", "password_missing",
     "password_error", "error"}

ExAuthorize ==
    /\ prog = "entry" /\ ep.name = "extract_urls" /\ ep.step = "auth"
    /\ \E ao \in ExAuthOutcomes :
        CASE ao = "password_missing" -> Leave("returned", "none", FALSE)
          [] ao \in {"password_error", "error"} -> Leave("raised", "RPCError", FALSE)
          [] OTHER -> /\ ep' = [ep EXCEPT !.step = "session"]
                      /\ UNCHANGED <<pc, err, connected>>
    /\ UNCHANGED <<notEntry, prog, channel, files, post>>

\* with open(SESSION_FILE, 'w') as f: f.write(session_string)
ExSaveSession ==
    /\ prog = "entry" /\ ep.name = "extract_urls" /\ ep.step = "session"
    /\ \/ Leave("raised", "OSError", FALSE)
       \/ /\ ep' = [ep EXCEPT !.step = "list"]
          /\ UNCHANGED <<pc, err, connected>>
    /\ UNCHANGED <<notEntry, prog, channel, files, post>>

RECURSIVE url_data(_)
url_data(msgs) ==
    IF msgs = <<>> THEN <<>>
    ELSE LET m == Head(msgs)
             found_urls == FindUrls(m.message)
         IN  (IF m.message # <<>> /\ found_urls # <<>>
              THEN <<[message_id |-> m.id, urls |-> found_urls]>>
              ELSE <<>>)
             \o url_data(Tail(msgs))

\* messages = await client.get_messages(CHANNEL_NAME, limit=10) and the loop
ExList ==
    /\ prog = "entry" /\ ep.name = "extract_urls" /\ ep.step = "list"
    /\ \E go \in GetOutcomes :
        IF go = "error"
        THEN Leave("raised", "RPCError", FALSE)
        ELSE /\ ep' = [ep EXCEPT !.step = "dump",
                                 !.out = url_data(get_messages(channel, EXTRACT_LIMIT))]
             /\ UNCHANGED <<pc, err, connected>>
    /\ UNCHANGED <<notEntry, prog, channel, files, post>>

\* json.dump(url_data, f), then await client.disconnect()
ExDump ==
    /\ prog = "entry" /\ ep.name = "extract_urls" /\ ep.step = "dump"
    /\ \/ Leave("raised", "OSError", FALSE)
       \/ Leave("returned", "none", TRUE)
    /\ UNCHANGED <<notEntry, prog, channel, files, post>>

(* main.main *)

\* Autogram.get_urls_from_channel: the urls of all the messages, in order
RECURSIVE get_urls_from_channel(_)
get_urls_from_channel(msgs) ==
    IF msgs = <<>> THEN <<>>
    ELSE (IF Head(msgs).message # <<>> THEN FindUrls(Head(msgs).message) ELSE <<>>)
         \o get_urls_from_channel(Tail(msgs))

\* urls = await telegram_handler.get_urls_from_channel(config.CHANNEL_NAME):
\* TelegramClientHandler defines no such method (AttributeError); a handler
\* that has it starts the client when it is not connected and lists the urls
ListOutcomes == {"no_method", "start_fail", "urls"}

MainGetUrls ==
    /\ prog = "entry" /\ ep.name = "main" /\ ep.step = "get_urls"
    /\ \E lo \in ListOutcomes :
        CASE lo = "no_method" -> Leave("raised", "AttributeError", TRUE)
          [] lo = "start_fail" -> Leave("raised", "ConnectionError", TRUE)
          [] OTHER ->
               /\ connected' = TRUE
               /\ ep' = [ep EXCEPT !.step = "fetch_all", !.started = TRUE,
                                   !.urls = get_urls_from_channel(get_messages(channel, LIMIT))]
               /\ UNCHANGED <<pc, err>>
    /\ UNCHANGED <<notEntry, prog, channel, files, post>>

\* asyncio.gather(*tasks): the results in the order of the tasks, or the
\* first exception raised by one of them
fetch_all(outcomes) ==
    IF \E n \in 1..Len(outcomes) : Raises(fetch(outcomes[n]))
    THEN <<"<raise>">>
    ELSE [n \in 1..Len(outcomes) |-> fetch(outcomes[n])]

\* html_contents = await fetcher.fetch_all(urls)
MainFetchAll ==
    /\ prog = "entry" /\ ep.name = "main" /\ ep.step = "fetch_all"
    /\ \E outcomes \in [1..Len(ep.urls) -> FetchOutcomes] :
        LET html_contents == fetch_all(outcomes)
        IN  IF Len(ep.urls) > 0 /\ Raises(html_contents)
            THEN Leave("raised", "TimeoutError", TRUE)
            ELSE /\ ep' = [ep EXCEPT !.step = "loop", !.htmls = html_contents, !.k = 1]
                 /\ UNCHANGED <<pc, err, connected>>
    /\ UNCHANGED <<notEntry, prog, channel, files, post>>

main_filename(url) == Sanitize(url) \o <<".", "m", "d">>

\* for url, html in zip(urls, html_contents): parse, summarize and save
MainUrl ==
    /\ prog = "entry" /\ ep.name = "main" /\ ep.step = "loop"
    /\ ep.k <= Len(ep.urls)
    /\ LET url == ep.urls[ep.k]
           html == ep.htmls[ep.k]
           filename == main_filename(url)
       IN  IF check_file_exists(files, filename) \/ Falsy(html)
           THEN UNCHANGED files
           ELSE \E content \in ParseResults, summary \in SummarizeResults,
                   wo \in WriteOutcomes :
                    IF Falsy(content) \/ Falsy(summary)
                    THEN UNCHANGED files
                    ELSE files' = save_summary(files, filename, summary, wo)
    /\ ep' = [ep EXCEPT !.k = @ + 1]
    /\ UNCHANGED <<notEntry, prog, pc, err, connected, channel, post>>

\* finally: await telegram_handler.stop()
MainFinally ==
    /\ prog = "entry" /\ ep.name = "main" /\ ep.step = "loop"
    /\ ep.k > Len(ep.urls)
    /\ Leave("returned", "none", TRUE)
    /\ UNCHANGED <<notEntry, prog, channel, files, post>>

EntryNext ==
    \/ UcEnter
    \/ UcAuthorize
    \/ UcLoad
    \/ UcSend
    \/ UcExit
    \/ ExStart
    \/ ExAuthorize
    \/ ExSaveSession
    \/ ExList
    \/ ExDump
    \/ MainGetUrls
    \/ MainFetchAll
    \/ MainUrl
    \/ MainFinally

EntrySpec == EntryInit /\ [][EntryNext]_vars

\* the event loop runs main to its end: a send that can be made is made,
\* and the loop is left once the last item is done.  The service raises
\* FloodWaitError at most MaxFloods times.
EntryFairSpec == EntrySpec /\ WF_vars(UcSend) /\ WF_vars(UcExit)

(***************************************************************************)
(* Summarizer.summarize.                                                   *)
(***************************************************************************)
notSum == <<connected, channel, mwu, mapping, i, j, local, files, run, stats, prev, doc,
            rec, post, ep, mm, fx>>

IsSpace(c) == c \in {" ", "\n", "\t"}

RECURSIVE lstrip(_)
lstrip(s) == IF s # <<>> /\ IsSpace(Head(s)) THEN lstrip(Tail(s)) ELSE s

RECURSIVE rstrip(_)
rstrip(s) ==
    IF s # <<>> /\ IsSpace(s[Len(s)]) THEN rstrip(SubSeq(s, 1, Len(s) - 1)) ELSE s

\* str.strip()
strip(s) == rstrip(lstrip(s))

MAX_RESPONSE_TOKENS == 1024
BUFFER_TOKENS == 100

\* a choice of tier that takes every name of the gpt-4 family for "gpt-4"
max_total_tokens_by_family(model_name) ==
    IF model_name = "gpt-3.5-turbo" THEN 4096
    ELSE IF model_name \in {"gpt-4", "gpt-4o"} THEN 8192
    ELSE 4096

max_total_tokens(model_name) ==
    IF model_name = "gpt-3.5-turbo" THEN 4096
    ELSE IF model_name = "gpt-4" THEN 8192
    ELSE 4096

max_input_tokens(model_name) ==
    max_total_tokens(model_name) - MAX_RESPONSE_TOKENS - BUFFER_TOKENS

\* The tiktoken encoding: a text becomes its UTF-8 bytes, the bytes are
\* joined into tokens by ranked pair merges, and decoding joins the bytes
\* of the tokens and reads them as UTF-8 with errors="replace".  "E" stands
\* for a character of two bytes E1 E2, "R" for U+FFFD, which is one token.
utf8(c) == IF c = "E" THEN <<"E1", "E2">> ELSE <<c>>

\* the sequences of a list joined end to end, by halves so that a text of
\* thousands of characters is joined in a few levels
RECURSIVE Concat(_)
Concat(seqs) ==
    IF seqs = <<>> THEN <<>>
    ELSE IF Len(seqs) = 1 THEN seqs[1]
    ELSE LET h == Len(seqs) \div 2
         IN  Concat(SubSeq(seqs, 1, h)) \o Concat(SubSeq(seqs, h + 1, Len(seqs)))

utf8_bytes(text) == Concat([n \in 1..Len(text) |-> utf8(text[n])])

\* bytes.decode("utf-8", errors="replace"): E1 followed by E2 is the
\* character, a byte of the two that stands alone is replaced
utf8_decode(b) ==
    Concat([n \in 1..Len(b) |->
               IF b[n] = "E1"
               THEN (IF n < Len(b) /\ b[n + 1] = "E2" THEN <<"E">> ELSE <<"R">>)
               ELSE IF b[n] = "E2"
               THEN (IF n > 1 /\ b[n - 1] = "E1" THEN <<>> ELSE <<"R">>)
               ELSE <<b[n]>>])

\* the merges of the vocabulary, lowest rank first
Merges ==
    <<<<(<<"a">>), (<<"b">>)>>,
      <<(<<" ">>), (<<"a", "b">>)>>,
      <<(<<"b">>), (<<"a">>)>>>>

\* the rank of the pair, 0 when the vocabulary does not merge it
RankOf(l, r) ==
    IF \E n \in 1..Len(Merges) : Merges[n] = <<l, r>>
    THEN CHOOSE n \in 1..Len(Merges) : Merges[n] = <<l, r>>
    ELSE 0

\* byte pair encoding: the pair of lowest rank, leftmost, is merged until no
\* pair of neighbours is in the vocabulary
RECURSIVE bpe(_)
bpe(parts) ==
    LET ranks == {RankOf(parts[k], parts[k + 1]) : k \in 1..Len(parts) - 1} \ {0}
    IN  IF ranks = {} THEN parts
        ELSE LET k == Min({q \in 1..Len(parts) - 1 :
                              RankOf(parts[q], parts[q + 1]) = Min(ranks)})
             IN  bpe(SubSeq(parts, 1, k - 1) \o <<parts[k] \o parts[k + 1]>>
                     \o SubSeq(parts, k + 2, Len(parts)))

\* encoding.encode(text)
encode(text) ==
    LET b == utf8_bytes(text)
    IN  bpe([n \in 1..Len(b) |-> <<b[n]>>])

token_bytes(tokens) == Concat(tokens)

\* encoding.decode(tokens)
decode(tokens) == utf8_decode(token_bytes(tokens))

\* a cut that keeps one token more than the budget
truncate_text_one_more(text, max_tokens) ==
    LET tokens == encode(text)
    IN  IF Len(tokens) > max_tokens THEN decode(SubSeq(tokens, 1, max_tokens + 1)) ELSE text

\* tokens = encoding.encode(text); tokens[:max_tokens] decoded when the text
\* has more tokens than max_tokens
truncate_text(text, max_tokens) ==
    LET tokens == encode(text)
    IN  IF Len(tokens) > max_tokens THEN decode(SubSeq(tokens, 1, max_tokens)) ELSE text

\* a wait that grows linearly
backoff_linear(attempt) == 2 * attempt

\* time.sleep(2 ** attempt)
backoff(attempt) == 2 ^ attempt

\* the model_name argument; "gpt-4o" is the default
ModelNames == {"gpt-3.5-turbo", "gpt-4", "gpt-4o", "davinci"}

\* the retries argument goes from 0 to MaxRetries; the default is 3
MaxRetries == 3

\* response.choices[0].message.content as the service may send it
Contents == {<<" ", "s", "\n">>, <<"s", " ", "t">>, <<" ">>}

\* one call of openai.chat.completions.create: an answer, an answer with no
\* content (strip() fails on None), an OpenAIError, or another exception
CallOutcomes == {"answer", "no_content", "OpenAIError", "other"}

NoSm == [model_name |-> "gpt-4o", retries |-> 0, text |-> <<>>, max_input_tokens |-> 0,
         attempt |-> 0, log |-> <<>>, sleeps |-> <<>>, content |-> <<>>, result |-> <<>>]

\* a text of n + 5 tokens: "ab", n times "w", the two bytes of "E", "w", "w"
LongText(n) == <<"a", "b">> \o [k \in 1..n |-> "w"] \o <<"E", "w", "w">>

\* texts of 2972, 2975 and 7071 tokens: one that fills the smaller budget,
\* one that exceeds it and one that exceeds the larger budget, the last two
\* being cut between the two bytes of "E"
LongTexts == {LongText(2967), LongText(2970), LongText(7066)}

SumTexts == {<<>>, <<"w">>, <<"w", "w", "w">>} \cup LongTexts

SumInit ==
    /\ prog = "summarize"
    /\ pc = "truncate"
    /\ err = "none"
    /\ sm \in {[NoSm EXCEPT !.model_name = m, !.retries = r, !.text = t] :
                  m \in ModelNames, r \in 0..MaxRetries, t \in SumTexts}
    /\ sm.text \in LongTexts => sm.retries = 1
    /\ connected = FALSE /\ channel = <<>> /\ files = <<>> /\ doc = NoDoc
    /\ mwu = <<>> /\ mapping = <<>> /\ i = 1 /\ j = 1 /\ local = NoLocal
    /\ run = 1 /\ stats = ZeroStats /\ prev = NoPrev
    /\ rec = <<>> /\ post = <<>> /\ ep = <<>> /\ mm = <<>> /\ fx = <<>>

\* text = self.truncate_text(text, max_input_tokens)
SmTruncate ==
    /\ prog = "summarize" /\ pc = "truncate"
    /\ LET max_tokens == max_input_tokens(sm.model_name)
       IN  sm' = [sm EXCEPT !.max_input_tokens = max_tokens,
                            !.text = truncate_text(@, max_tokens)]
    /\ pc' = "loop"
    /\ UNCHANGED <<notSum, prog, err>>

\* except clauses that take every failure of the call for a service error
except_clause_retry_all(co) ==
    CASE co = "answer" -> "return"
      [] OTHER -> "OpenAIError"

\* the except clause the outcome of the call falls to: none for an answer
\* with content, "OpenAIError", or "Exception" (which an answer without
\* content raises too, strip() being called on None)
except_clause(co) ==
    CASE co = "answer" -> "return"
      [] co = "OpenAIError" -> "OpenAIError"
      [] OTHER -> "Exception"

\* for attempt in range(retries): one call and its except clauses
SmAttempt ==
    /\ prog = "summarize" /\ pc = "loop"
    /\ sm.attempt < sm.retries
    /\ \E co \in CallOutcomes, content \in Contents :
        /\ co # "answer" => content = <<" ">>
        /\ CASE except_clause(co) = "return" ->
                 /\ sm' = [sm EXCEPT !.log = Append(@, co), !.content = content,
                                     !.result = strip(content)]
                 /\ pc' = "returned"
              [] except_clause(co) = "OpenAIError" ->
                 /\ sm' = [sm EXCEPT !.log = Append(@, co),
                                     !.sleeps = Append(@, backoff(sm.attempt)),
                                     !.attempt = @ + 1]
                 /\ pc' = "loop"
              [] OTHER ->
                 /\ sm' = [sm EXCEPT !.log = Append(@, co), !.result = NoneVal]
                 /\ pc' = "returned"
    /\ UNCHANGED <<notSum, prog, err>>

\* the loop ran out: return None
SmExhausted ==
    /\ prog = "summarize" /\ pc = "loop"
    /\ sm.attempt >= sm.retries
    /\ sm' = [sm EXCEPT !.result = NoneVal]
    /\ pc' = "returned"
    /\ UNCHANGED <<notSum, prog, err>>

SumNext ==
    \/ SmTruncate
    \/ SmAttempt
    \/ SmExhausted

SumSpec == SumInit /\ [][SumNext]_vars

(***************************************************************************)
(* MappingManager.save_mapping and load_mapping, called in any order.      *)
(***************************************************************************)
notMm == <<connected, channel, mwu, mapping, i, j, local, files, run, stats, prev,
           rec, sm, post, ep, fx>>

\* mappings process_messages can return
SampleMappings ==
    RecMappings \cup
    {<<>>,
     <<[k |-> 7, v |-> <<Info(7, UrlA), Info(7, UrlC)>>]>>,
     <<[k |-> 10, v |-> <<>>], [k |-> 100, v |-> <<Info(100, UrlB)>>]>>}

\* saved: the mapping of the last save_mapping call; fresh: that call
\* returned and the document was not written since; loaded: what the last
\* load_mapping call returned
NoMm == [saved |-> <<>>, fresh |-> FALSE, loaded |-> [is |-> "None", dict |-> <<>>],
         op |-> "none"]

MmInit ==
    /\ prog = "mapping"
    /\ pc = "run"
    /\ err = "none"
    /\ doc \in {NoDoc} \cup {Document(json_dump(m)) : m \in SampleMappings}
    /\ mm = NoMm
    /\ connected = FALSE /\ channel = <<>> /\ files = <<>>
    /\ mwu = <<>> /\ mapping = <<>> /\ i = 1 /\ j = 1 /\ local = NoLocal
    /\ run = 1 /\ stats = ZeroStats /\ prev = NoPrev
    /\ rec = <<>> /\ sm = <<>> /\ post = <<>> /\ ep = <<>> /\ fx = <<>>

\* mapping_manager.save_mapping(m)
MmSave ==
    /\ prog = "mapping"
    /\ \E m \in SampleMappings, wo \in WriteOutcomes :
        /\ doc' = save_mapping(doc, m, wo)
        /\ mm' = [mm EXCEPT !.saved = m, !.fresh = (wo = "ok"), !.op = "save"]
        /\ err' = IF wo = "ok" THEN "none" ELSE "OSError"
    /\ UNCHANGED <<notMm, prog, pc>>

\* mapping_manager.load_mapping()
MmLoad ==
    /\ prog = "mapping"
    /\ LET m == load_mapping(doc)
       IN  /\ mm' = [mm EXCEPT !.loaded = m, !.op = "load"]
           /\ err' = IF m.is = "raise" THEN "JSONDecodeError" ELSE "none"
    /\ UNCHANGED <<notMm, prog, pc, doc>>

MmNext ==
    \/ MmSave
    \/ MmLoad

MmSpec == MmInit /\ [][MmNext]_vars

(***************************************************************************)
(* MessageProcessor.generate_filename, called on its own.                  *)
(***************************************************************************)
notFx == <<connected, channel, mwu, mapping, i, j, local, files, run, stats, prev, doc,
           rec, sm, post, ep, mm>>

\* the state of the parts that do not take part
Idle ==
    /\ connected = FALSE /\ channel = <<>> /\ files = <<>> /\ doc = NoDoc
    /\ mwu = <<>> /\ mapping = <<>> /\ i = 1 /\ j = 1 /\ local = NoLocal
    /\ run = 1 /\ stats = ZeroStats /\ prev = NoPrev
    /\ rec = <<>> /\ sm = <<>> /\ post = <<>> /\ ep = <<>> /\ mm = <<>>

KeyIds == {1, 11, 42, 43}

KeyUrls ==
    {UrlA, UrlB, UrlC,
     HTTPS \o <<"c", "/", "/", "d">>,
     HTTPS \o <<"c", "?", "d">>,
     HTTPS \o <<"c", "_", "d">>,
     HTTPS \o <<"c", "d", "/">>}

\* calls of generate_filename in one run of the model
MaxCalls == 2

KeyInit ==
    /\ prog = "key"
    /\ pc = "run"
    /\ err = "none"
    /\ fx = [calls |-> <<>>]
    /\ Idle

\* filename = self.generate_filename(message_id, url)
KeyCall ==
    /\ prog = "key"
    /\ Len(fx.calls) < MaxCalls
    /\ \E message_id \in KeyIds, url \in KeyUrls :
        fx' = [fx EXCEPT !.calls = Append(@, [message_id |-> message_id, url |-> url,
                                             key |-> generate_filename(message_id, url)])]
    /\ UNCHANGED <<notFx, prog, pc, err>>

KeyNext == KeyCall

KeySpec == KeyInit /\ [][KeyNext]_vars

(***************************************************************************)
(* Summarizer.truncate_text, called on a text and again on its result.     *)
(***************************************************************************)
\* the longest text and the largest budget of the model
MaxText == 3
MaxBudget == 3

TruncChars == {"a", "b", " ", "E"}

TruncTexts == UNION {[1..n -> TruncChars] : n \in 0..MaxText}

TruncInit ==
    /\ prog = "truncate"
    /\ pc = "first"
    /\ err = "none"
    /\ fx \in {[text |-> t, max_tokens |-> n, out |-> <<>>, again |-> <<>>] :
                  t \in TruncTexts, n \in 0..MaxBudget}
    /\ Idle

\* text = self.truncate_text(text, max_tokens)
TruncFirst ==
    /\ prog = "truncate" /\ pc = "first"
    /\ fx' = [fx EXCEPT !.out = truncate_text(fx.text, fx.max_tokens)]
    /\ pc' = "second"
    /\ UNCHANGED <<notFx, prog, err>>

\* truncate_text called on the text it returned
TruncAgain ==
    /\ prog = "truncate" /\ pc = "second"
    /\ fx' = [fx EXCEPT !.again = truncate_text(fx.out, fx.max_tokens)]
    /\ pc' = "done"
    /\ UNCHANGED <<notFx, prog, err>>

TruncNext ==
    \/ TruncFirst
    \/ TruncAgain

TruncSpec == TruncInit /\ [][TruncNext]_vars

(***************************************************************************)
(* A batch of concurrent fetches: ArticleFetcher.fetch_all and             *)
(* Autogram.fetch_articles.  The tasks are created in the order of the     *)
(* urls and complete in any order.                                         *)
(***************************************************************************)
BatchUrls == {<<UrlA, UrlB, UrlC>>, <<UrlA, UrlB, UrlA>>, <<UrlB>>, <<>>}

\* re.sub(r'\W+', '_', url) + '.txt'
article_filename(url) == Sanitize(url) \o <<".", "t", "x", "t">>

\* what fetch_content_async returns: the parsed content, or None after a
\* status other than 200, an exception or an empty parse
ArticleContents == {<<"c">>, <<"d">>, NoneVal}

Task(url) == [url |-> url, state |-> "pending", content |-> <<>>]

NoBatch == [kind |-> "fetch_all", urls |-> <<>>, present |-> {}, tasks |-> <<>>,
            order |-> <<>>, k |-> 1, articles |-> <<>>, assigns |-> <<>>, result |-> <<>>]

BatchInit ==
    /\ prog = "batch"
    /\ pc = "create"
    /\ err = "none"
    /\ \/ fx \in {[NoBatch EXCEPT !.urls = u] : u \in BatchUrls}
       \/ fx \in {[NoBatch EXCEPT !.kind = "fetch_articles", !.urls = u, !.present = f] :
                     u \in BatchUrls, f \in {{}, {article_filename(UrlB)}}}
    /\ Idle

\* tasks = [self.fetch(url) for url in urls]
FaCreateTasks ==
    /\ prog = "batch" /\ pc = "create" /\ fx.kind = "fetch_all"
    /\ fx' = [fx EXCEPT !.tasks = [n \in 1..Len(fx.urls) |-> Task(fx.urls[n])]]
    /\ pc' = "running"
    /\ UNCHANGED <<notFx, prog, err>>

\* for url in urls: skip the url whose article file is there, else
\* tasks.append((url, filename, ensure_future(fetch_content_async(url))))
RECURSIVE article_tasks(_, _)
article_tasks(urls, present) ==
    IF urls = <<>> THEN <<>>
    ELSE (IF article_filename(Head(urls)) \in present THEN <<>> ELSE <<Task(Head(urls))>>)
         \o article_tasks(Tail(urls), present)

ArCreateTasks ==
    /\ prog = "batch" /\ pc = "create" /\ fx.kind = "fetch_articles"
    /\ fx' = [fx EXCEPT !.tasks = article_tasks(fx.urls, fx.present)]
    /\ pc' = "running"
    /\ UNCHANGED <<notFx, prog, err>>

\* one of the fetches under way ends; the order of the ends is free
TaskDone ==
    /\ prog = "batch" /\ pc = "running"
    /\ \E n \in 1..Len(fx.tasks) :
        /\ fx.tasks[n].state = "pending"
        /\ \E content \in IF fx.kind = "fetch_all"
                            THEN {fetch(fo) : fo \in FetchOutcomes}
                            ELSE ArticleContents :
            fx' = [fx EXCEPT !.tasks[n] = [@ EXCEPT !.state = "done", !.content = content],
                             !.order = Append(@, n)]
    /\ UNCHANGED <<notFx, prog, pc, err>>

\* results put together in the order the tasks ended
gather_by_completion(tasks, order) == [n \in 1..Len(tasks) |-> tasks[order[n]].content]

\* asyncio.gather(*tasks): the results in the order of the tasks
gather(tasks, order) == [n \in 1..Len(tasks) |-> tasks[n].content]

\* return await asyncio.gather(*tasks): the first exception of a task is
\* raised at once; else the results when every task has ended
FaGather ==
    /\ prog = "batch" /\ pc = "running" /\ fx.kind = "fetch_all"
    /\ IF \E n \in 1..Len(fx.tasks) : Raises(fx.tasks[n].content)
       THEN /\ pc' = "raised"
            /\ err' = "TimeoutError"
            /\ UNCHANGED fx
       ELSE /\ \A n \in 1..Len(fx.tasks) : fx.tasks[n].state = "done"
            /\ fx' = [fx EXCEPT !.result = gather(fx.tasks, fx.order)]
            /\ pc' = "returned"
            /\ UNCHANGED err
    /\ UNCHANGED <<notFx, prog>>

\* for url, filename, task in tasks: content = await task;
\* if content: articles[url] = (filename, content)
ArAwait ==
    /\ prog = "batch" /\ pc = "running" /\ fx.kind = "fetch_articles"
    /\ fx.k <= Len(fx.tasks)
    /\ fx.tasks[fx.k].state = "done"
    /\ LET t == fx.tasks[fx.k]
       IN  fx' = IF Falsy(t.content)
                 THEN [fx EXCEPT !.k = @ + 1]
                 ELSE [fx EXCEPT !.k = @ + 1,
                                 !.articles = DictSet(@, t.url,
                                                      <<article_filename(t.url), t.content>>),
                                 !.assigns = Append(@, t.url)]
    /\ UNCHANGED <<notFx, prog, pc, err>>

\* return articles
ArReturn ==
    /\ prog = "batch" /\ pc = "running" /\ fx.kind = "fetch_articles"
    /\ fx.k > Len(fx.tasks)
    /\ fx' = [fx EXCEPT !.result = fx.articles]
    /\ pc' = "returned"
    /\ UNCHANGED <<notFx, prog, err>>

BatchNext ==
    \/ FaCreateTasks
    \/ ArCreateTasks
    \/ TaskDone
    \/ FaGather
    \/ ArAwait
    \/ ArReturn

BatchSpec == BatchInit /\ [][BatchNext]_vars

(***************************************************************************)
(* Save, then reconcile passes over the same channel: the mapping of the   *)
(* save pass is persisted and each reconcile pass loads it.  fx lists the  *)
(* reconcile passes: the mode of each and the edit requests it made.       *)
(***************************************************************************)
UrlX == HTTPS \o <<"x", ".", "t", "e", "s", "t", "/", "1">>

\* one message whose text is "hello https://x.test/1"
TripChannel == <<Msg(1, <<Word("hello"), SP, UrlX>>)>>

\* reconcile passes in one run of the model
MaxPasses == 2

TripInit ==
    /\ prog = "save"
    /\ pc = "list"
    /\ connected = FALSE
    /\ channel = TripChannel
    /\ mwu = <<>>
    /\ mapping = <<>>
    /\ i = 1
    /\ j = 1
    /\ local = NoLocal
    /\ files = <<>>
    /\ run = 1
    /\ stats = ZeroStats
    /\ prev = NoPrev
    /\ doc = NoDoc
    /\ err = "none"
    /\ rec = <<>> /\ sm = <<>> /\ post = <<>> /\ ep = <<>> /\ mm = <<>> /\ fx = <<>>

\* the save pass ends: mapping_manager.save_mapping(mapping)
PersistMapping ==
    /\ prog = "save" /\ pc = "returned"
    /\ \E wo \in WriteOutcomes :
        /\ doc' = save_mapping(doc, mapping, wo)
        /\ IF wo = "ok"
           THEN pc' = "persisted" /\ UNCHANGED err
           ELSE pc' = "raised" /\ err' = "OSError"
    /\ UNCHANGED <<notSave, prog, connected, channel, mwu, mapping, i, j, local, files, run,
                   stats, prev>>

\* the requests of the pass that ended are noted with its mode
ClosePass(log, edits) ==
    IF log = <<>> THEN log ELSE [log EXCEPT ![Len(log)].edits = edits]

\* a reconcile pass is started, in update or in restore mode, after the
\* save pass or after another reconcile pass
StartReconcile ==
    /\ \/ prog = "save" /\ pc = "persisted"
       \/ prog = "reconcile" /\ pc = "done" /\ fx # <<>>
    /\ Len(fx) < MaxPasses
    /\ \E mode \in Modes :
        /\ rec' = [NoRec EXCEPT !.mode = mode]
        /\ fx' = Append(ClosePass(fx, IF prog = "reconcile" THEN rec.edits ELSE <<>>),
                        [mode |-> mode, edits |-> <<>>])
    /\ prog' = "reconcile"
    /\ pc' = "load"
    /\ mapping' = <<>>
    /\ i' = 1
    /\ UNCHANGED <<connected, channel, mwu, j, local, files, run, stats, prev, doc, err,
                   sm, post, ep, mm>>

TripNext ==
    \/ SaveNext
    \/ PersistMapping
    \/ StartReconcile
    \/ RecNext

TripSpec == TripInit /\ [][TripNext]_vars

(***************************************************************************)
(* Config: __init__ reads the environment, validate checks it.             *)
(***************************************************************************)
Required == <<"TELEGRAM_API_ID", "TELEGRAM_API_HASH", "TELEGRAM_CHANNEL_NAME", "OPENAI_API_KEY">>

\* a variable is unset (os.getenv gives None), empty, or holds a text
EnvValues == {NoneVal, <<>>, <<"1">>, <<" ">>}

Environments == [{Required[n] : n \in 1..Len(Required)} -> EnvValues]

getenv(env, name) == env[name]

\* a validation that stops at the first variable found missing
validate_first_only(cfg) ==
    IF Falsy(cfg.API_ID) THEN <<"TELEGRAM_API_ID">>
    ELSE IF Falsy(cfg.API_HASH) THEN <<"TELEGRAM_API_HASH">>
    ELSE IF Falsy(cfg.CHANNEL_NAME) THEN <<"TELEGRAM_CHANNEL_NAME">>
    ELSE IF Falsy(cfg.OPENAI_API_KEY) THEN <<"OPENAI_API_KEY">>
    ELSE <<>>

\* missing_vars as validate builds it
validate(cfg) ==
    (IF Falsy(cfg.API_ID) THEN <<"TELEGRAM_API_ID">> ELSE <<>>)
    \o (IF Falsy(cfg.API_HASH) THEN <<"TELEGRAM_API_HASH">> ELSE <<>>)
    \o (IF Falsy(cfg.CHANNEL_NAME) THEN <<"TELEGRAM_CHANNEL_NAME">> ELSE <<>>)
    \o (IF Falsy(cfg.OPENAI_API_KEY) THEN <<"OPENAI_API_KEY">> ELSE <<>>)

NoConfig == [API_ID |-> NoneVal, API_HASH |-> NoneVal, CHANNEL_NAME |-> NoneVal,
             OPENAI_API_KEY |-> NoneVal]

CfgInit ==
    /\ prog = "config"
    /\ pc = "new"
    /\ err = "none"
    /\ fx \in {[env |-> e, config |-> NoConfig, logged |-> <<>>, status |-> 0] :
                  e \in Environments}
    /\ Idle

\* self.API_ID = os.getenv('TELEGRAM_API_ID') and the three others
CfgLoad ==
    /\ prog = "config" /\ pc = "new"
    /\ fx' = [fx EXCEPT !.config = [API_ID |-> getenv(fx.env, "TELEGRAM_API_ID"),
                                    API_HASH |-> getenv(fx.env, "TELEGRAM_API_HASH"),
                                    CHANNEL_NAME |-> getenv(fx.env, "TELEGRAM_CHANNEL_NAME"),
                                    OPENAI_API_KEY |-> getenv(fx.env, "OPENAI_API_KEY")]]
    /\ pc' = "loaded"
    /\ UNCHANGED <<notFx, prog, err>>

\* self.validate(): logging.error(..., ', '.join(missing_vars)); sys.exit(1)
CfgValidate ==
    /\ prog = "config" /\ pc = "loaded"
    /\ LET missing_vars == validate(fx.config)
       IN  IF missing_vars # <<>>
           THEN /\ fx' = [fx EXCEPT !.logged = Join(missing_vars, ", "), !.status = 1]
                /\ pc' = "exited"
                /\ err' = "SystemExit"
           ELSE /\ pc' = "returned"
                /\ UNCHANGED <<fx, err>>
    /\ UNCHANGED <<notFx, prog>>

CfgNext ==
    \/ CfgLoad
    \/ CfgValidate

CfgSpec == CfgInit /\ [][CfgNext]_vars

(***************************************************************************)
(* ArticleParser.parse.  The markup is a sequence of tokens: opening tags, *)
(* closing tags and runs of text.  html.parser keeps an element open until *)
(* its closing tag, the closing tag of an element around it, or the end of *)
(* the markup, and drops a closing tag that closes nothing.                *)
(***************************************************************************)
Open(name) == [kind |-> "open", name |-> name, text |-> <<>>]
Close(name) == [kind |-> "close", name |-> name, text |-> <<>>]
Text(t) == [kind |-> "text", name |-> "", text |-> t]

\* the longest markup of the model, in tokens
MaxMarkup == 4

MarkupTokens ==
    {Open("article"), Close("article"), Open("body"), Close("body"),
     Text(<<"a">>), Text(<<" ", "b", "\n">>), Text(<<" ">>)}

Markups == UNION {[1..n -> MarkupTokens] : n \in 0..MaxMarkup}

\* the elements open after the first n tokens, outermost first
RECURSIVE OpenAfter(_, _)
OpenAfter(html, n) ==
    IF n = 0 THEN <<>>
    ELSE LET before == OpenAfter(html, n - 1)
             t == html[n]
             same == {k \in 1..Len(before) : before[k] = t.name}
         IN  CASE t.kind = "open" -> Append(before, t.name)
               [] t.kind = "close" /\ same # {} ->
                      SubSeq(before, 1, (CHOOSE k \in same : \A q \in same : q <= k) - 1)
               [] OTHER -> before

\* soup.find(name): the place of the first opening tag of the name, 0 for None
find(html, name) ==
    LET at == {k \in 1..Len(html) : html[k] = Open(name)}
    IN  IF at = {} THEN 0 ELSE Min(at)

\* the place of the last token inside the element opened at the place k
LastInside(html, k) ==
    LET closed == {m \in (k + 1)..Len(html) : Len(OpenAfter(html, m)) < Len(OpenAfter(html, k))}
    IN  IF closed = {} THEN Len(html) ELSE Min(closed) - 1

\* the strings of the tokens from..to, in document order
Strings(html, from, to) ==
    LET texts == SelectSeq(SubSeq(html, from, to), LAMBDA t : t.kind = "text")
    IN  [n \in 1..Len(texts) |-> texts[n].text]

\* str.split(): the runs of characters that are not whitespace
RECURSIVE split(_)
split(s) ==
    LET t == lstrip(s)
    IN  IF t = <<>> THEN <<>>
        ELSE LET blanks == {n \in 1..Len(t) : IsSpace(t[n])}
                 stop == IF blanks = {} THEN Len(t) + 1 ELSE Min(blanks)
             IN  <<SubSeq(t, 1, stop - 1)>> \o split(SubSeq(t, stop, Len(t)))

\* tag.get_text(separator=' ', strip=True): every string stripped, the
\* empty ones left out, the others joined with one blank
get_text(strings) ==
    LET stripped == [n \in 1..Len(strings) |-> strip(strings[n])]
    IN  Concat(Join(SelectSeq(stripped, LAMBDA x : x # <<>>), <<" ">>))

\* ' '.join(text.split())
collapse(text) == Concat(Join(split(text), <<" ">>))

\* a parse that looks for the body before the article
parse_body_first(html, raises) ==
    IF raises THEN NoneVal
    ELSE LET article_tag == find(html, "article")
             body_tag == find(html, "body")
         IN  collapse(get_text(
                 IF body_tag # 0
                 THEN Strings(html, body_tag + 1, LastInside(html, body_tag))
                 ELSE IF article_tag # 0
                 THEN Strings(html, article_tag + 1, LastInside(html, article_tag))
                 ELSE Strings(html, 1, Len(html))))

\* ArticleParser.parse: None when BeautifulSoup raises, the collapsed text of
\* the first article, of the first body, or of the whole document otherwise
parse(html, raises) ==
    IF raises THEN NoneVal
    ELSE LET article_tag == find(html, "article")
             body_tag == find(html, "body")
         IN  collapse(get_text(
                 IF article_tag # 0
                 THEN Strings(html, article_tag + 1, LastInside(html, article_tag))
                 ELSE IF body_tag # 0
                 THEN Strings(html, body_tag + 1, LastInside(html, body_tag))
                 ELSE Strings(html, 1, Len(html))))

ParseInit ==
    /\ prog = "parse"
    /\ pc = "call"
    /\ err = "none"
    /\ fx \in {[html |-> h, is_none |-> FALSE, rejected |-> FALSE, out |-> <<>>] :
                  h \in Markups}
             \cup {[html |-> <<>>, is_none |-> TRUE, rejected |-> FALSE, out |-> <<>>]}
    /\ Idle

\* content = self.parser.parse(html): BeautifulSoup raises TypeError on None
\* and may reject a markup
ParseCall ==
    /\ prog = "parse" /\ pc = "call"
    /\ \E rejected \in BOOLEAN :
        fx' = [fx EXCEPT !.rejected = rejected,
                         !.out = parse(fx.html, fx.is_none \/ rejected)]
    /\ pc' = "done"
    /\ UNCHANGED <<notFx, prog, err>>

ParseNext == ParseCall

ParseSpec == ParseInit /\ [][ParseNext]_vars

(***************************************************************************)
(* TelegramClientHandler, its five operations called in any order.  The    *)
(* log has one entry for each operation: whether the client was connected  *)
(* when it began, what its start step did, whether the call was forwarded  *)
(* to the client and with the client in what state, and how it ended.      *)
(***************************************************************************)
\* operations in one run of the model
MaxOps == 3

\* an operation that forwards the call without looking at the connection
ensure_started_never(conn, so) == [start |-> "none", connected |-> conn, raised |-> FALSE]

\* if not self.client.is_connected(): await self.start()
ensure_started(conn, so) ==
    IF ~conn
    THEN [start |-> so, connected |-> so = "ok", raised |-> so = "fail"]
    ELSE [start |-> "none", connected |-> conn, raised |-> FALSE]

\* the client call ends well or raises
ClientOutcomes == {"ok", "error"}

\* one listing or editing operation: the start step, then the call to the
\* client, whose exception is swallowed (get_message, edit_message) or
\* leaves the operation (get_messages_with_urls)
Forward(op, swallows) ==
    /\ prog = "handler"
    /\ Len(fx.log) < MaxOps
    /\ \E so \in StartOutcomes, co \in ClientOutcomes :
        LET s == ensure_started(connected, so)
        IN  /\ s.raised => co = "ok"
            /\ connected' = s.connected
            /\ fx' = [fx EXCEPT !.log = Append(@,
                   [op |-> op, before |-> connected, start |-> s.start,
                    forwarded |-> ~s.raised,
                    at_call |-> ~s.raised /\ s.connected,
                    result |-> IF s.raised \/ (co = "error" /\ ~swallows)
                               THEN "raised" ELSE "returned",
                    exc |-> IF s.raised THEN "ConnectionError"
                            ELSE IF co = "error" /\ ~swallows THEN "RPCError"
                            ELSE "none"])]
    /\ UNCHANGED <<prog, pc, err, channel, mwu, mapping, i, j, local, files, run, stats,
                   prev, doc, rec, sm, post, ep, mm>>

HandlerInit ==
    /\ prog = "handler"
    /\ pc = "run"
    /\ err = "none"
    /\ fx = [log |-> <<>>]
    /\ Idle

\* await self.client.start()
HsStart ==
    /\ prog = "handler"
    /\ Len(fx.log) < MaxOps
    /\ \E so \in StartOutcomes :
        /\ connected' = (connected \/ so = "ok")
        /\ fx' = [fx EXCEPT !.log = Append(@,
               [op |-> "start", before |-> connected, start |-> so, forwarded |-> FALSE,
                at_call |-> FALSE,
                result |-> IF so = "fail" THEN "raised" ELSE "returned",
                exc |-> IF so = "fail" THEN "ConnectionError" ELSE "none"])]
    /\ UNCHANGED <<prog, pc, err, channel, mwu, mapping, i, j, local, files, run, stats,
                   prev, doc, rec, sm, post, ep, mm>>

\* await self.client.disconnect()
HsStop ==
    /\ prog = "handler"
    /\ Len(fx.log) < MaxOps
    /\ connected' = FALSE
    /\ fx' = [fx EXCEPT !.log = Append(@,
           [op |-> "stop", before |-> connected, start |-> "none", forwarded |-> FALSE,
            at_call |-> FALSE, result |-> "returned", exc |-> "none"])]
    /\ UNCHANGED <<prog, pc, err, channel, mwu, mapping, i, j, local, files, run, stats,
                   prev, doc, rec, sm, post, ep, mm>>

HsGetMessagesWithUrls == Forward("get_messages_with_urls", FALSE)

HsGetMessage == Forward("get_message", TRUE)

HsEditMessage == Forward("edit_message", TRUE)

\* the connection drops between two operations
HsConnectionLost ==
    /\ prog = "handler"
    /\ connected
    /\ Len(fx.log) < MaxOps
    /\ connected' = FALSE
    /\ UNCHANGED <<prog, pc, err, channel, mwu, mapping, i, j, local, files, run, stats,
                   prev, doc, rec, sm, post, ep, mm, fx>>

HandlerNext ==
    \/ HsStart
    \/ HsStop
    \/ HsGetMessagesWithUrls
    \/ HsGetMessage
    \/ HsEditMessage
    \/ HsConnectionLost

HandlerSpec == HandlerInit /\ [][HandlerNext]_vars

(***************************************************************************)
(* Every pass.                                                             *)
(***************************************************************************)
Init ==
    \/ SaveInit \/ RecInit \/ EntryInit \/ SumInit \/ MmInit
    \/ KeyInit \/ TruncInit \/ BatchInit \/ TripInit \/ CfgInit \/ ParseInit
    \/ HandlerInit

Next ==
    \/ SaveNext \/ RecNext \/ EntryNext \/ SumNext \/ MmNext
    \/ KeyNext \/ TruncNext \/ BatchNext \/ PersistMapping \/ StartReconcile
    \/ CfgNext \/ ParseNext \/ HandlerNext

Spec == Init /\ [][Next]_vars

(***************************************************************************)
(* Properties of the save pass.                                            *)
(***************************************************************************)
HasUrl(m) == FindUrls(m.message) # <<>>

\* for each channel of the model, the messages that carry a url in the
\* order of the source, and the urls of each in the order of its text
SourceTable ==
    [c \in Channels \cup {TripChannel} |-> SelectSeq(get_messages(c, LIMIT), HasUrl)]

UrlTable ==
    [c \in Channels \cup {TripChannel} |->
        [n \in 1..Len(SourceTable[c]) |-> FindUrls(SourceTable[c][n].message)]]

\* the messages of the channel that carry a url, in the order of the source
SourceWithUrls == SourceTable[channel]

\* a is b with some elements left out, the others in the order of b
RECURSIVE IsSubSeq(_, _)
IsSubSeq(a, b) ==
    IF a = <<>> THEN TRUE
    ELSE IF b = <<>> THEN FALSE
    ELSE IF Head(a) = Head(b) THEN IsSubSeq(Tail(a), Tail(b))
    ELSE IsSubSeq(a, Tail(b))

Returned == prog = "save" /\ pc = "returned"

\* every url of every message, in order, with its filename
FullTable ==
    [c \in Channels \cup {TripChannel} |->
        LET src == SourceTable[c]
        IN  [n \in 1..Len(src) |->
                [k |-> src[n].id,
                 v |-> LET urls == UrlTable[c][n]
                       IN  [u \in 1..Len(urls) |->
                               [url |-> urls[u],
                                filename |-> generate_filename(src[n].id, urls[u])]]]]]

FullMapping == FullTable[channel]

Filenames(m) == UNION {{m[n].v[u].filename : u \in 1..Len(m[n].v)} : n \in 1..Len(m)}

\* the urls of message n whose fetch did not fail in this pass
NotFailed(n) ==
    LET urls == mwu[n].urls
        F[u \in 0..Len(urls)] ==
            IF u = 0 THEN <<>>
            ELSE IF <<n, u>> \in stats.failed THEN F[u - 1]
            ELSE Append(F[u - 1], urls[u])
    IN  F[Len(urls)]

\* C1: when the fetch of one url of a message fails, whatever the kind of
\* failure, process_messages does not raise, and the entry of the message
\* holds the other urls and not the failed one.
C1_PartialFailureIsolation ==
    prog = "save" =>
        /\ err # "TimeoutError"
        /\ pc = "returned" =>
               \A n \in 1..Len(mapping) :
                   /\ IsSubSeq(EntryUrls(mapping[n].v), NotFailed(n))
                   /\ \A u \in 1..Len(mwu[n].urls) :
                          <<n, u>> \in stats.failed
                              => \A e \in 1..Len(mapping[n].v) :
                                     mapping[n].v[e].url # mwu[n].urls[u]

\* C2: every entry of the mapping names a file that exists in the artifact
\* directory and holds a summary.
C2_EntriesArePersisted ==
    prog = "save" =>
        \A n \in 1..Len(mapping) : \A e \in 1..Len(mapping[n].v) :
            /\ mapping[n].v[e].filename \in DOMAIN files
            /\ files[mapping[n].v[e].filename] \in Summaries

\* C3 as stated: a second pass over the same messages makes no fetch and no
\* summarizer call, and returns the mapping and the files of the first.
C3_SecondRunDoesNothing ==
    (prog = "save" /\ run = 2 /\ prev.returned) =>
        /\ stats.fetch = 0 /\ stats.summ = 0
        /\ Returned => (mapping = prev.mapping /\ files = prev.files)

\* C3 amended: a later pass never rewrites a file the pass before left;
\* when the pass before left a file for every url, the later pass makes no
\* fetch, no summarizer call and no write, leaves the files as they were and
\* returns the mapping that lists every url of every message in order, which
\* is the mapping of the pass before when that one skipped no url.
C3_Idempotent ==
    (prog = "save" /\ run >= 2) =>
        LET full == FullMapping
        IN  /\ \A f \in DOMAIN prev.files : f \in DOMAIN files /\ files[f] = prev.files[f]
            /\ Filenames(full) \subseteq DOMAIN prev.files =>
                   /\ stats.fetch = 0 /\ stats.summ = 0 /\ stats.write = 0
                   /\ files = prev.files
                   /\ Returned => mapping = full
                   /\ (Returned /\ prev.returned /\ prev.mapping = full)
                          => mapping = prev.mapping

C3_Witness ==
    /\ prog = "save" /\ run = 2 /\ pc = "returned"
    /\ prev.returned /\ Filenames(FullMapping) \subseteq DOMAIN prev.files
    /\ Len(mapping) = 3 /\ mapping = prev.mapping
    /\ stats.fetch = 0

\* C4: the keys of the mapping are the ids of the messages that carry urls,
\* in the order the source returned them, and the urls of an entry are in
\* the order they appear in the text of the message.
C4_OrderPreserved ==
    prog = "save" =>
        LET src == SourceWithUrls
        IN  /\ Len(mapping) <= Len(src)
            /\ Returned => Len(mapping) = Len(src)
            /\ \A n \in 1..Len(mapping) :
                   /\ mapping[n].k = src[n].id
                   /\ IsSubSeq(EntryUrls(mapping[n].v), UrlTable[channel][n])

C4_Witness ==
    /\ Returned
    /\ DictKeys(mapping) = <<12, 10, 9>>
    /\ \A n \in 1..3 : Len(mapping[n].v) = 1

\* the urls of message n of the listing all failed to be fetched in this pass
AllFailed(n) == \A u \in 1..Len(mwu[n].urls) : <<n, u>> \in stats.failed

\* C11: the mapping has a key for a message exactly when the text of the
\* message holds at least one url match: no key for a message without url,
\* and a key with the empty list for a message whose urls all failed.
C11_KeyIffUrl ==
    prog = "save" =>
        LET msgs == get_messages(channel, LIMIT)
        IN  /\ \A n \in 1..Len(mapping) :
                   \E m \in 1..Len(msgs) : msgs[m].id = mapping[n].k /\ HasUrl(msgs[m])
            /\ Returned =>
                   /\ \A m \in 1..Len(msgs) : DictHas(mapping, msgs[m].id) <=> HasUrl(msgs[m])
                   /\ \A n \in 1..Len(mwu) :
                          AllFailed(n) => /\ DictHas(mapping, mwu[n].message.id)
                                          /\ DictGet(mapping, mwu[n].message.id) = <<>>

C11_Witness ==
    /\ Returned /\ run = 1
    /\ channel = ChannelThree
    /\ AllFailed(2)
    /\ mapping[2] = [k |-> 10, v |-> <<>>]
    /\ ~DictHas(mapping, 3)
    /\ Len(mapping[1].v) = 1 /\ Len(mapping[3].v) = 1

\* the url of the loop is about to be processed and its artifact exists
ArtifactExists ==
    /\ prog = "save" /\ pc = "pm_url"
    /\ j <= Len(CurMsg.urls)
    /\ generate_filename(CurMsg.message.id, CurUrl) \in DOMAIN files

\* C12: no step of any save pass changes or removes a file that exists, and
\* a url whose artifact exists is recorded in the mapping in one step that
\* makes no fetch, no summarizer call and no write and goes on to the next
\* url without entering the fetch, parse, summarize or save steps (unless
\* the process is terminated first, which touches nothing either).
C12_WriteOnce ==
    [][prog = "save" =>
          /\ \A f \in DOMAIN files : f \in DOMAIN files' /\ files'[f] = files[f]
          /\ ArtifactExists =>
                 /\ files' = files
                 /\ pc' \in {"pm_url", "raised"}
                 /\ pc' = "raised" => err' = "Terminated"
                 /\ pc' = "pm_url" =>
                        /\ stats' = stats
                        /\ j' = j + 1 /\ i' = i
                        /\ mapping' = AppendInfo(mapping, CurMsg.message.id, CurUrl,
                                                 generate_filename(CurMsg.message.id, CurUrl))]_vars

C12_Witness ==
    /\ prog = "save" /\ run = 2 /\ pc = "pm_url"
    /\ channel = ChannelABC /\ j = 2
    /\ generate_filename(7, UrlA) \in DOMAIN prev.files
    /\ files = prev.files
    /\ mapping = <<[k |-> 7, v |-> <<Info(7, UrlA)>>]>>
    /\ stats = ZeroStats

\* the number of {url, filename} items of a mapping
RECURSIVE ItemCount(_)
ItemCount(m) == IF m = <<>> THEN 0 ELSE Len(Head(m).v) + ItemCount(Tail(m))

\* C26: for a url without artifact process_url goes from fetch to parse to
\* summarize to the write, each step entered from the one before with a
\* result that is not empty; a step that does not lead to the next one
\* writes no file and adds no mapping item; and process_url returns
\* {url, filename} after the three steps with the artifact written.
C26_StepOrder ==
    [][prog = "save" =>
          /\ (pc' = "fetch" /\ pc # "fetch") =>
                 pc = "pm_url" /\ local'.filename \notin DOMAIN files
          /\ (pc' = "parse" /\ pc # "parse") => pc = "fetch" /\ ~Falsy(local'.html)
          /\ (pc' = "summarize" /\ pc # "summarize") =>
                 pc = "parse" /\ ~Falsy(local'.content)
          /\ (pc' = "save" /\ pc # "save") => pc = "summarize" /\ ~Falsy(local'.summary)
          /\ pc \in {"fetch", "parse", "summarize"} =>
                 files' = files /\ ItemCount(mapping') <= ItemCount(mapping)
          /\ (pc = "save" /\ pc' = "pm_url") =>
                 /\ mapping' = AppendInfo(mapping, CurMsg.message.id, CurUrl, local.filename)
                 /\ local.filename \in DOMAIN files'
                 /\ files'[local.filename] = local.summary]_vars

\* the mapping item of url A in message 5
ItemA == [url |-> UrlA, filename |-> generate_filename(5, UrlA)]

\* the first pass over the message that carries url A twice has dealt with
\* the first occurrence: its item is in the mapping and its artifact holds
\* the summary
FirstOccurrenceDone ==
    /\ prog = "save" /\ channel = ChannelTwice /\ run = 1
    /\ pc = "pm_url" /\ i = 1 /\ j = 2
    /\ mapping = <<[k |-> 5, v |-> <<ItemA>>]>>
    /\ ItemA.filename \in DOMAIN files
    /\ files[ItemA.filename] \in Summaries

\* C30: a url that stands twice in a message and is processed with success
\* is fetched, summarized and written once, at its first occurrence; the
\* second occurrence adds a second item with the same url and filename
\* after the first, with no fetch, no summarizer call and no write, and the
\* pass then returns the two items.
C30_DuplicateListedTwice ==
    /\ [](FirstOccurrenceDone => stats.fetch = 1 /\ stats.summ = 1 /\ stats.write = 1)
    /\ [][FirstOccurrenceDone =>
             \/ pc' = "raised" /\ err' = "Terminated"
             \/ /\ pc' = "pm_url" /\ i' = 1 /\ j' = 3
                /\ mapping' = <<[k |-> 5, v |-> <<ItemA, ItemA>>]>>
                /\ stats' = stats
                /\ files' = files]_vars
    /\ []((/\ prog = "save" /\ channel = ChannelTwice /\ run = 1 /\ pc = "returned"
            /\ stats.fetch = 1
            /\ ItemA.filename \in DOMAIN files
            /\ files[ItemA.filename] \in Summaries)
           => /\ mapping = <<[k |-> 5, v |-> <<ItemA, ItemA>>]>>
              /\ stats.summ = 1 /\ stats.write = 1
              /\ DOMAIN files = {ItemA.filename})

\* the pass returned the url twice after one fetch and one write
C30_Witness ==
    /\ prog = "save" /\ channel = ChannelTwice /\ run = 1 /\ pc = "returned"
    /\ mapping = <<[k |-> 5, v |-> <<ItemA, ItemA>>]>>
    /\ stats.fetch = 1 /\ stats.summ = 1 /\ stats.write = 1
    /\ files = (ItemA.filename :> <<"s">>)

\* C13: in a pass that follows a terminated pass, no url whose artifact
\* file was there at the termination is fetched or summarized, and the
\* mapping the pass returns has an entry for each such file, which holds a
\* complete summary.
C13_CrashResume ==
    (prog = "save" /\ run >= 2 /\ ~prev.returned) =>
        /\ pc \in {"fetch", "parse", "summarize", "save"} =>
               local.filename \notin DOMAIN prev.files
        /\ Returned =>
               \A f \in DOMAIN prev.files :
                   /\ f \in Filenames(mapping)
                   /\ f \in DOMAIN files /\ files[f] \in Summaries

(***************************************************************************)
(* Properties of the reconcile pass.                                       *)
(***************************************************************************)
EntryOutcomes == {"SKIPPED", "NOOP", "DONE", "FAILED"}

EditsFor(id) == {e \in 1..Len(rec.edits) : rec.edits[e].id = id}

\* the entries handled so far are the first entries of the mapping, one
\* outcome each, and only a found message has drawn an edit request
OutcomesInOrder ==
    /\ pc # "load" => Len(rec.outcomes) = i - 1
    /\ \A n \in 1..Len(rec.outcomes) :
           /\ rec.outcomes[n].key = mapping[n].k
           /\ rec.outcomes[n].outcome \in EntryOutcomes
           /\ Cardinality(EditsFor(StrToInt(mapping[n].k)))
                  = IF rec.outcomes[n].outcome = "SKIPPED" THEN 0 ELSE 1
    /\ pc = "done" => Len(rec.outcomes) = Len(mapping)

\* C5 as stated: every entry is visited once, in the order of the mapping,
\* ends SKIPPED, NOOP, DONE or FAILED, and update_messages never raises.
C5_NeverRaises ==
    prog = "reconcile" =>
        /\ OutcomesInOrder
        /\ ~(pc = "raised" /\ err # "JSONDecodeError")

\* C5 amended: every entry that is handled ends SKIPPED (no edit request),
\* NOOP, DONE or FAILED and the pass goes on to the next entry, in the order
\* of the mapping; the pass ends with every entry handled, or, when the
\* client is found disconnected and starting it fails, with that
\* connection error, which is the only exception update_messages raises.
C5_PerEntryNonFatal ==
    prog = "reconcile" =>
        /\ OutcomesInOrder
        /\ pc \in {"load", "um_get", "um_edit", "done", "raised"}
        /\ (pc = "raised" /\ err # "JSONDecodeError") =>
               /\ err = "ConnectionError"
               /\ ~connected

C5_Witness ==
    /\ prog = "reconcile" /\ pc = "done"
    /\ Len(rec.outcomes) = 3
    /\ rec.outcomes[1].outcome = "FAILED"
    /\ rec.outcomes[2].outcome = "SKIPPED"
    /\ rec.outcomes[3].outcome = "DONE"

C7_ReleasedOnEveryExit ==
    (prog = "entry" /\ pc \in {"returned", "raised"} /\ ep.started) => ~connected

\* the items client.send_message accepted, in the order of the sends
RECURSIVE SentItems(_)
SentItems(log) ==
    IF log = <<>> THEN <<>>
    ELSE (IF Head(log).outcome = "ok" THEN <<post.items[Head(log).idx]>> ELSE <<>>)
         \o SentItems(Tail(log))

\* the positions of the input at which the item stands
PlacesIn(input, item) == {n \in 1..Len(input) : input[n] = item}

\* C23: the items are sent in ascending order of message_id whatever the
\* order of the input file: the message_ids of the accepted sends never
\* decrease, and of two sent items of one message_id the one that stands
\* first in the input is sent first.
C23_PostingOrder ==
    (prog = "entry" /\ ep.name = "update_channel") =>
        LET sent == SentItems(post.log)
        IN  \A a, b \in 1..Len(sent) :
                a < b =>
                    /\ sent[a].message_id <= sent[b].message_id
                    /\ sent[a].message_id = sent[b].message_id =>
                           \A pa \in PlacesIn(post.input, sent[a]),
                              pb \in PlacesIn(post.input, sent[b]) : pa < pb

\* the input [3 c, 1 a, 3 d] was sent as 1 a, 3 c, 3 d
C23_Witness ==
    /\ prog = "entry" /\ ep.name = "update_channel" /\ pc = "returned"
    /\ post.input = <<Item(3, <<"c">>), Item(1, <<"a">>), Item(3, <<"d">>)>>
    /\ SentItems(post.log) = <<Item(1, <<"a">>), Item(3, <<"c">>), Item(3, <<"d">>)>>

\* the sends of the item that ended its turn: accepted, or refused with an
\* error that is no rate limit
Settled(idx) ==
    {n \in 1..Len(post.log) : post.log[n].idx = idx /\ post.log[n].outcome \in {"ok", "error"}}

\* C27: the service signalling a rate limit finitely often, the loop over
\* the items ends with every item sent once or skipped once after another
\* error; and a send refused with a rate limit leaves the loop on the same
\* item, whatever the number of refusals before it.
C27_PostingTerminates ==
    /\ (prog = "entry" /\ ep.name = "update_channel" /\ ep.step = "loop")
           ~> (/\ pc = "returned"
               /\ \A idx \in 1..Len(post.items) : Cardinality(Settled(idx)) = 1)
    /\ [][(/\ prog = "entry" /\ ep.name = "update_channel"
            /\ Len(post'.log) = Len(post.log) + 1
            /\ post'.log[Len(post'.log)].outcome = "flood")
           => /\ post'.idx = post.idx
              /\ ep'.step = "loop"
              /\ pc' = "run"]_vars

\* the first item was refused twice with a rate limit and then sent, the
\* second was skipped after an error, and main returned
C27_Witness ==
    /\ prog = "entry" /\ ep.name = "update_channel" /\ pc = "returned"
    /\ Len(post.items) = 2
    /\ [n \in 1..Len(post.log) |-> post.log[n].outcome] = <<"flood", "flood", "ok", "error">>
    /\ post.log[3].idx = 1 /\ post.log[4].idx = 2

OkSends(idx) == {n \in 1..Len(post.log) : post.log[n].idx = idx /\ post.log[n].outcome = "ok"}

\* the seconds carried by the rate-limit signals received, in order
RECURSIVE FloodSeconds(_)
FloodSeconds(log) ==
    IF log = <<>> THEN <<>>
    ELSE (IF Head(log).outcome = "flood" THEN <<Head(log).seconds>> ELSE <<>>)
         \o FloodSeconds(Tail(log))

\* C9: a send of item i answered by a rate-limit signal of s seconds is
\* followed by a sleep of s seconds and another send of item i: the loop
\* does not move to item i+1 and does not end, and no item is sent
\* successfully more than once.
C9_FloodWaitRetriesSameItem ==
    (prog = "entry" /\ ep.name = "update_channel") =>
        /\ \A n \in 1..Len(post.log) - 1 :
               post.log[n + 1].idx =
                   IF post.log[n].outcome = "flood" THEN post.log[n].idx
                   ELSE post.log[n].idx + 1
        /\ (post.log # <<>> /\ post.log[Len(post.log)].outcome = "flood") =>
               /\ post.idx = post.log[Len(post.log)].idx
               /\ pc = "run" /\ ep.step = "loop"
        /\ post.sleeps = FloodSeconds(post.log)
        /\ \A idx \in 1..Len(post.items) : Cardinality(OkSends(idx)) <= 1

C9_Witness ==
    /\ prog = "entry" /\ ep.name = "update_channel"
    /\ Len(post.log) = 4
    /\ post.log[2] = [idx |-> 2, outcome |-> "flood", seconds |-> 60]
    /\ post.log[3] = [idx |-> 2, outcome |-> "flood", seconds |-> 5]
    /\ post.log[4] = [idx |-> 2, outcome |-> "ok", seconds |-> 0]
    /\ post.sleeps = <<60, 5>>
    /\ post.idx = 3

(***************************************************************************)
(* Properties of Summarizer.summarize.                                     *)
(***************************************************************************)
Failures(log) == Cardinality({n \in 1..Len(log) : log[n] = "OpenAIError"})

\* C8: summarize makes at most `retries` calls, stops at the first call that
\* succeeds and returns its trimmed text, waits 2^attempt seconds after the
\* failed attempt number attempt, and returns None, without raising, after
\* `retries` service errors in a row.
C8_BoundedRetry ==
    prog = "summarize" =>
        /\ Len(sm.log) <= sm.retries
        /\ \A n \in 1..Len(sm.log) - 1 : sm.log[n] = "OpenAIError"
        /\ Len(sm.sleeps) = Failures(sm.log)
        /\ \A n \in 1..Len(sm.sleeps) : sm.sleeps[n] = 2 ^ (n - 1)
        /\ err = "none"
        /\ pc = "returned" =>
               /\ (sm.log # <<>> /\ sm.log[Len(sm.log)] = "answer") =>
                      /\ sm.result = strip(sm.content)
                      /\ sm.result = <<>> \/
                             (~IsSpace(Head(sm.result)) /\ ~IsSpace(sm.result[Len(sm.result)]))
               /\ Failures(sm.log) = Len(sm.log) =>
                      (sm.result = NoneVal /\ Len(sm.log) = sm.retries)
        /\ (pc = "loop" /\ sm.attempt < sm.retries) => Failures(sm.log) = Len(sm.log)

C8_Witness ==
    /\ prog = "summarize" /\ pc = "returned"
    /\ sm.retries = 3
    /\ sm.log = <<"OpenAIError", "OpenAIError", "OpenAIError">>
    /\ sm.sleeps = <<1, 2, 4>>
    /\ sm.result = NoneVal

\* C29: a call that fails with an error that is no OpenAIError is the last
\* call summarize makes: summarize has returned None, and the only waits
\* are those of the service errors before it, whatever is left of the
\* retry budget.
C29_NoRetryOfOtherErrors ==
    prog = "summarize" =>
        \A n \in 1..Len(sm.log) :
            sm.log[n] \in {"other", "no_content"} =>
                /\ n = Len(sm.log)
                /\ pc = "returned"
                /\ sm.result = NoneVal
                /\ Len(sm.sleeps) = n - 1
                /\ \A q \in 1..(n - 1) : sm.log[q] = "OpenAIError"

\* with three attempts allowed the second call failed with another error
C29_Witness ==
    /\ prog = "summarize" /\ pc = "returned"
    /\ sm.retries = 3
    /\ sm.log = <<"OpenAIError", "other">>
    /\ sm.sleeps = <<1>>
    /\ sm.result = NoneVal

\* the context size of the claim: the larger tier for "gpt-4" alone
Tier(model_name) == IF model_name = "gpt-4" THEN 8192 ELSE 4096

\* C24: the input budget is the tier of the model name less 1024 tokens of
\* response and 100 of buffer, the larger tier being that of "gpt-4" alone;
\* it is positive for every name, and the text of every request made to
\* the service has no more tokens than the budget.
C24_InputBudget ==
    (prog = "summarize" /\ pc # "truncate") =>
        /\ sm.max_input_tokens = Tier(sm.model_name) - 1024 - 100
        /\ sm.max_input_tokens > 0
        /\ Len(encode(sm.text)) <= sm.max_input_tokens

\* the default model was sent a text cut to the 2972 tokens of its budget,
\* the last of them the replacement of the first byte of "E"
C24_Witness ==
    /\ prog = "summarize" /\ pc = "returned"
    /\ sm.model_name = "gpt-4o"
    /\ sm.log = <<"answer">>
    /\ Len(sm.text) = 2973
    /\ sm.text[2973] = "R"
    /\ Len(encode(sm.text)) = 2972

(***************************************************************************)
(* Properties of MappingManager.                                           *)
(***************************************************************************)
IsDecimal(s) == s # <<>> /\ \A n \in 1..Len(s) : \E d \in 1..10 : s[n] = Digits[d]

\* C10: a load_mapping that follows save_mapping(m) returns the entries of
\* m and no other: the same message ids as decimal strings, in the same
\* order, each with the same list of {url, filename}, whatever document was
\* there before.
C10_SaveLoadRoundTrip ==
    (prog = "mapping" /\ mm.op = "load" /\ mm.fresh) =>
        /\ mm.loaded.is = "dict"
        /\ Len(mm.loaded.dict) = Len(mm.saved)
        /\ \A n \in 1..Len(mm.saved) :
               /\ IsDecimal(mm.loaded.dict[n].k)
               /\ StrToInt(mm.loaded.dict[n].k) = mm.saved[n].k
               /\ mm.loaded.dict[n].v = mm.saved[n].v

C10_Witness ==
    /\ prog = "mapping" /\ mm.op = "load" /\ mm.fresh
    /\ Len(mm.saved) = 3
    /\ DictKeys(mm.loaded.dict) = <<<<"1", "2">>, <<"9">>, <<"1", "0">>>>

(***************************************************************************)
(* Properties of generate_filename.                                        *)
(***************************************************************************)
\* C14: generate_filename gives the same key each time it is called with
\* the same message id and url, and for one url two different message ids
\* give two different keys.
C14_KeyPerMessage ==
    prog = "key" =>
        \A a, b \in 1..Len(fx.calls) :
            LET ca == fx.calls[a]
                cb == fx.calls[b]
            IN  /\ (ca.message_id = cb.message_id /\ ca.url = cb.url) => ca.key = cb.key
                /\ (ca.message_id # cb.message_id /\ ca.url = cb.url) => ca.key # cb.key

C14_Witness ==
    /\ prog = "key" /\ Len(fx.calls) = 2
    /\ fx.calls[1].message_id = 1 /\ fx.calls[2].message_id = 11
    /\ fx.calls[1].url = UrlC /\ fx.calls[2].url = UrlC
    /\ fx.calls[1].key # fx.calls[2].key

\* the part of the key between "<message id>_" and ".md"
KeyBody(call) ==
    LET lead == Len(IntToStr(call.message_id)) + 1
    IN  SubSeq(call.key, lead + 1, Len(call.key) - 3)

\* C15 as stated: every non-word character of the url is replaced by one
\* underscore of its own, and two urls of one message get the same key only
\* when they have the same length and differ only where both hold a
\* non-word character.
C15_UnderscorePerCharacter ==
    prog = "key" =>
        /\ \A a \in 1..Len(fx.calls) :
               LET c == fx.calls[a]
                   body == KeyBody(c)
               IN  /\ Len(body) = Len(c.url)
                   /\ \A n \in 1..Len(body) :
                          body[n] = IF IsWordChar(c.url[n]) THEN c.url[n] ELSE "_"
        /\ \A a, b \in 1..Len(fx.calls) :
               LET ua == fx.calls[a].url
                   ub == fx.calls[b].url
               IN  (fx.calls[a].message_id = fx.calls[b].message_id
                        /\ fx.calls[a].key = fx.calls[b].key)
                   => /\ Len(ua) = Len(ub)
                      /\ \A n \in 1..Len(ua) :
                             ua[n] # ub[n] => (~IsWordChar(ua[n]) /\ ~IsWordChar(ub[n]))

\* the length of the run of characters of one class that s begins with
RunLen(s) ==
    CHOOSE n \in 1..Len(s) :
        /\ \A k \in 1..n : IsWordChar(s[k]) = IsWordChar(s[1])
        /\ n = Len(s) \/ IsWordChar(s[n + 1]) # IsWordChar(s[1])

\* s cut into its maximal runs of word and of non-word characters
RECURSIVE Runs(_)
Runs(s) ==
    IF s = <<>> THEN <<>>
    ELSE <<[word |-> IsWordChar(s[1]), text |-> SubSeq(s, 1, RunLen(s))]>>
         \o Runs(SubSeq(s, RunLen(s) + 1, Len(s)))

\* the runs put together again, one underscore for each non-word run
RECURSIVE Collapsed(_)
Collapsed(runs) ==
    IF runs = <<>> THEN <<>>
    ELSE (IF Head(runs).word THEN Head(runs).text ELSE <<"_">>) \o Collapsed(Tail(runs))

\* two urls with the same runs of word characters, in the same places
SameButSeparators(ua, ub) ==
    LET ra == Runs(ua)
        rb == Runs(ub)
    IN  /\ Len(ra) = Len(rb)
        /\ \A n \in 1..Len(ra) :
               /\ ra[n].word = rb[n].word
               /\ ra[n].word => ra[n].text = rb[n].text

\* C15 amended: the key is "<message id>_<sanitized url>.md", the sanitized
\* url being the url with every maximal run of non-word characters replaced
\* by one underscore; two urls of one message get the same key exactly when
\* their sanitized forms are the same, as they are whenever the urls differ
\* only in what their runs of non-word characters hold or how long they are.
C15_UnderscorePerRun ==
    prog = "key" =>
        /\ \A a \in 1..Len(fx.calls) :
               LET c == fx.calls[a]
                   body == KeyBody(c)
               IN  /\ c.key = IntToStr(c.message_id) \o <<"_">> \o body \o <<".", "m", "d">>
                   /\ body = Collapsed(Runs(c.url))
                   /\ \A n \in 1..Len(body) : IsWordChar(body[n])
        /\ \A a, b \in 1..Len(fx.calls) :
               LET ca == fx.calls[a]
                   cb == fx.calls[b]
               IN  ca.message_id = cb.message_id =>
                       /\ ca.key = cb.key <=> Collapsed(Runs(ca.url)) = Collapsed(Runs(cb.url))
                       /\ SameButSeparators(ca.url, cb.url) => ca.key = cb.key

C15_Witness ==
    /\ prog = "key" /\ Len(fx.calls) = 2
    /\ fx.calls[1].message_id = 42 /\ fx.calls[2].message_id = 42
    /\ fx.calls[1].url = UrlC
    /\ fx.calls[2].url = HTTPS \o <<"c", "/", "/", "d">>
    /\ fx.calls[1].key = fx.calls[2].key
    /\ Len(KeyBody(fx.calls[1])) < Len(UrlC)

(***************************************************************************)
(* Properties of Summarizer.truncate_text.                                 *)
(***************************************************************************)
\* C16: truncate_text returns the text of the first min(len(t), n) tokens
\* of the tokens t of the text: a text of at most n tokens comes back as it
\* is, a text of n+1 tokens comes back as a text of exactly n tokens, no
\* result has more than n tokens, and truncating the result again changes
\* nothing.
C16_TruncateBoundary ==
    (prog = "truncate" /\ pc # "first") =>
        LET t == encode(fx.text)
            n == fx.max_tokens
            kept == IF Len(t) < n THEN Len(t) ELSE n
        IN  /\ fx.out = decode(SubSeq(t, 1, kept))
            /\ Len(t) <= n => fx.out = fx.text
            /\ Len(t) = n + 1 => Len(encode(fx.out)) = n
            /\ Len(encode(fx.out)) <= n
            /\ pc = "done" => fx.again = fx.out

C16_Witness ==
    /\ prog = "truncate" /\ pc = "done"
    /\ fx.text = <<"a", "b", "E">>
    /\ fx.max_tokens = 2
    /\ Len(encode(fx.text)) = 3
    /\ fx.out = <<"a", "b", "R">>
    /\ fx.again = fx.out

(***************************************************************************)
(* Properties of the concurrent fetches.                                   *)
(***************************************************************************)
\* C17: whatever the order in which the fetches end, the n-th element of
\* the result of fetch_all is what the fetch of the n-th url returned, and
\* fetch_articles pairs each url with the content of a fetch of that url,
\* its keys following the order of the urls.
C17_RequestOrder ==
    (prog = "batch" /\ pc = "returned") =>
        IF fx.kind = "fetch_all"
        THEN /\ Len(fx.result) = Len(fx.urls)
             /\ \A n \in 1..Len(fx.urls) :
                    /\ fx.tasks[n].url = fx.urls[n]
                    /\ fx.result[n] = fx.tasks[n].content
        ELSE /\ IsSubSeq(EntryUrls(fx.tasks), fx.urls)
             /\ \A a, b \in 1..Len(fx.result) :
                    a < b => \E m, n \in 1..Len(fx.tasks) :
                                 /\ m < n
                                 /\ fx.tasks[m].url = fx.result[a].k
                                 /\ fx.tasks[n].url = fx.result[b].k
             /\ \A a \in 1..Len(fx.result) :
                    \E n \in 1..Len(fx.tasks) :
                        /\ fx.tasks[n].url = fx.result[a].k
                        /\ fx.result[a].v = <<article_filename(fx.result[a].k),
                                               fx.tasks[n].content>>

C17_Witness ==
    /\ prog = "batch" /\ pc = "returned" /\ fx.kind = "fetch_all"
    /\ fx.urls = <<UrlA, UrlB, UrlC>>
    /\ fx.order = <<3, 2, 1>>
    /\ fx.result = <<NoneVal, <<"h">>, NoneVal>>

\* C18: in fetch_articles no key of articles is assigned more than once and
\* no url is fetched more than once, whatever the list of urls.
C18_KeyWrittenOnce ==
    (prog = "batch" /\ fx.kind = "fetch_articles") =>
        /\ \A a, b \in 1..Len(fx.assigns) : fx.assigns[a] = fx.assigns[b] => a = b
        /\ \A m, n \in 1..Len(fx.tasks) : fx.tasks[m].url = fx.tasks[n].url => m = n

(***************************************************************************)
(* Properties of save followed by reconcile.                               *)
(***************************************************************************)
\* the summary stored for the url, <<>> when none is recorded or none loads
StoredSummary(infos) ==
    IF infos = <<>> THEN <<>>
    ELSE IF infos[1].filename \notin DOMAIN files THEN <<>>
    ELSE IF files[infos[1].filename] = <<>> THEN <<>>
    ELSE <<files[infos[1].filename]>>

\* C19: after a save pass over "hello https://x.test/1" a reconcile pass in
\* restore mode requests the text "https://x.test/1", the recorded url; a
\* reconcile pass in update mode requests the text the message has at that
\* time, a blank line and the stored summary (the text as it is when no
\* summary is stored).
C19_RoundTrip ==
    (prog = "reconcile" /\ fx # <<>>) =>
        /\ pc = "um_edit" => rec.text = TextOf(channel, rec.id)
        /\ \A e \in 1..Len(rec.edits) :
               LET infos == mapping[1].v
                   stored == StoredSummary(infos)
                   request == rec.edits[e].text
               IN  /\ rec.edits[e].id = 1
                   /\ (rec.mode = "restore" /\ infos # <<>>) => request = <<UrlX>>
                   /\ (rec.mode = "update" /\ stored # <<>>) =>
                          request = rec.text \o <<NL, NL>> \o stored
                   /\ (rec.mode = "update" /\ stored = <<>>) => request = rec.text

C19_Witness ==
    /\ prog = "reconcile" /\ pc = "done"
    /\ Len(fx) = 2
    /\ fx[1] = [mode |-> "restore", edits |-> <<[id |-> 1, text |-> <<UrlX>>]>>]
    /\ rec.mode = "update"
    /\ rec.text = <<UrlX>>
    /\ rec.edits = <<[id |-> 1, text |-> <<UrlX, NL, NL, <<"s">>>>]>>
    /\ TextOf(channel, 1) = <<UrlX, NL, NL, <<"s">>>>

(***************************************************************************)
(* Properties of the texts the reconcile pass requests.                    *)
(***************************************************************************)
\* C20: no edit request of update_messages carries an empty text, and the
\* request made for an entry with no recorded url carries the text the
\* message has, as it is.
C20_NeverEmptyMessage ==
    prog = "reconcile" =>
        \A e \in 1..Len(rec.edits) :
            LET id == rec.edits[e].id
                infos == DictGet(mapping, IntToStr(id))
            IN  /\ rec.edits[e].text # <<>>
                /\ infos = <<>> => rec.edits[e].text = TextOf(channel, id)

C20_Witness ==
    /\ prog = "reconcile" /\ pc = "done"
    /\ rec.mode = "restore"
    /\ Len(mapping) = 3 /\ Len(rec.outcomes) = 3
    /\ mapping[2] = [k |-> <<"1", "0">>, v |-> <<>>]
    /\ \E e \in 1..Len(rec.edits) :
           rec.edits[e] = [id |-> 10, text |-> <<UrlB, SP, Word("x")>>]
    /\ rec.outcomes[2] = Outcome(<<"1", "0">>, "NOOP")

(***************************************************************************)
(* Properties of Config.validate.                                          *)
(***************************************************************************)
\* the required variables that are unset or empty
MissingIn(env) == {v \in DOMAIN env : env[v] = NoneVal \/ env[v] = <<>>}

\* the variable names of a logged list
Reported(logged) == {logged[n] : n \in 1..Len(logged)} \ {", "}

\* C22: validate ends the process with a non-zero status exactly when one
\* of the four required variables is unset or empty, the names it has then
\* logged being all the missing ones and no other; with none missing it
\* returns and logs nothing.
C22_ListsEveryMissing ==
    (prog = "config" /\ pc \in {"returned", "exited"}) =>
        /\ pc = "exited" <=> MissingIn(fx.env) # {}
        /\ pc = "exited" => fx.status # 0 /\ err = "SystemExit"
        /\ pc = "returned" => fx.status = 0 /\ err = "none"
        /\ Reported(fx.logged) = MissingIn(fx.env)

\* two variables are missing, one unset and one empty, and both are listed
C22_Witness ==
    /\ prog = "config" /\ pc = "exited"
    /\ fx.env["TELEGRAM_API_HASH"] = NoneVal
    /\ fx.env["OPENAI_API_KEY"] = <<>>
    /\ fx.env["TELEGRAM_API_ID"] = <<" ">>
    /\ fx.logged = <<"TELEGRAM_API_HASH", ", ", "OPENAI_API_KEY">>

(***************************************************************************)
(* Properties of ArticleParser.parse.                                      *)
(***************************************************************************)
\* the strings of the element the policy names: the first article, else the
\* first body, else the whole document
PolicyStrings(html) ==
    LET articles == {k \in 1..Len(html) : html[k] = Open("article")}
        bodies == {k \in 1..Len(html) : html[k] = Open("body")}
        k == IF articles # {} THEN Min(articles)
             ELSE IF bodies # {} THEN Min(bodies) ELSE 0
    IN  Strings(html, k + 1, IF k = 0 THEN Len(html) ELSE LastInside(html, k))

\* the words of the strings, in order
RECURSIVE WordsOf(_)
WordsOf(strings) ==
    IF strings = <<>> THEN <<>> ELSE split(Head(strings)) \o WordsOf(Tail(strings))

\* no whitespace but single blanks between words
SingleSpaced(text) ==
    /\ \A n \in 1..Len(text) : IsSpace(text[n]) => text[n] = " "
    /\ text # <<>> => text[1] # " " /\ text[Len(text)] # " "
    /\ \A n \in 1..(Len(text) - 1) : ~(text[n] = " " /\ text[n + 1] = " ")

\* C25: parse returns the text of the first article when the markup has
\* one, else of the body when it has one, else of the whole document, with
\* single blanks between the words and none at the ends; when the parser
\* fails it returns None; it never raises.
C25_ExtractionPolicy ==
    (prog = "parse" /\ pc = "done") =>
        /\ err = "none"
        /\ (fx.is_none \/ fx.rejected) => fx.out = NoneVal
        /\ ~(fx.is_none \/ fx.rejected) =>
               /\ fx.out # NoneVal
               /\ SingleSpaced(fx.out)
               /\ split(fx.out) = WordsOf(PolicyStrings(fx.html))

\* a body with text before the article it holds: the article alone is returned
C25_Witness ==
    /\ prog = "parse" /\ pc = "done" /\ ~fx.rejected
    /\ fx.html = <<Open("body"), Text(<<"a">>), Open("article"), Text(<<" ", "b", "\n">>)>>
    /\ fx.out = <<"b">>

(***************************************************************************)
(* Properties of TelegramClientHandler.                                    *)
(***************************************************************************)
\* C28: whatever operations came before, a listing or editing call reaches
\* the client only with the client connected, the operation having started
\* the client when it found it disconnected; and when that start fails the
\* operation raises the connection error and forwards nothing.
C28_ConnectBeforeUse ==
    prog = "handler" =>
        \A n \in 1..Len(fx.log) :
            LET e == fx.log[n]
            IN  /\ e.forwarded => e.at_call
                /\ e.op \in {"get_messages_with_urls", "get_message", "edit_message"} =>
                       /\ e.before <=> e.start = "none"
                       /\ e.start = "fail" <=> ~e.forwarded
                       /\ e.start = "fail" =>
                              e.result = "raised" /\ e.exc = "ConnectionError"

\* after a stop an edit started the client and was forwarded, and a
\* listing whose start failed raised
C28_Witness ==
    /\ prog = "handler" /\ Len(fx.log) = 3
    /\ fx.log[1].op = "stop"
    /\ fx.log[2].op = "edit_message" /\ fx.log[2].start = "ok" /\ fx.log[2].at_call
    /\ fx.log[3].op = "get_messages_with_urls" /\ ~fx.log[3].before
    /\ fx.log[3].result = "raised" /\ fx.log[3].exc = "ConnectionError"

====
